---- MODULE Spec2Model ----
\* Voxii desktop: the streaming capture pipeline of src/src/App.tsx.
\*
\* The model follows the JavaScript event loop: every action is one task (a
\* click, a timer callback, a MediaRecorder stop task, the settling of an
\* awaited promise) run to its next await, together with the microtasks it
\* releases. MediaRecorder.stop() sets state to "inactive" at once and queues
\* a task that fires dataavailable and then stop; queued tasks run in FIFO
\* order (variable tasks).
EXTENDS Integers, Sequences, FiniteSets, TLC

\* ------------------------------------------------------------------ bounds
MaxRec == 2         \* recordings started in one run
MaxAudio == 2       \* units of audio the mixed signal delivers in one run
MaxCalls == 4       \* calls a client makes on one RecorderHandle
MaxStops == 2       \* handleStop calls in one run
MaxInFlight == 2    \* chunk timer callbacks in flight at once
MaxResults == 2     \* chunk results of the session whose texts are spelled out
MaxWords == 2       \* words in one spelled-out chunk text
MaxVocabulary == 2  \* distinct words in the spelled-out chunk texts
MaxDispatch == 2    \* chunks a client dispatches to the session it drives
MaxEndCalls == 2    \* end calls a client makes on the session it drives
MaxStopAudio == 1   \* units of audio delivered in a run that follows handleStop to its end
MaxDurationSteps == 24  \* configured chunk durations run from 0 to this many steps of DurationStep
MaxWraps == 2       \* configured chunk durations reach this many times 2^31 ms
MaxSamples == 3     \* samples in a rendered AudioBuffer
MaxAmplitude == 2   \* sample values run from -MaxAmplitude to MaxAmplitude
MaxLoaded == 2      \* meetings load_meetings returns
MaxCreated == 2     \* createMeeting calls in one run
MaxCommits == 2     \* final transcripts handleStop commits in one run
MaxClock == 2       \* distinct values new Date() returns after start-up

Recs == 1..MaxRec
StopIds == 1..MaxStops
TickIds == 1..MaxInFlight

\* ----------------------------------------------------------------- helpers
\* A waiter is the continuation parked on a promise: <<kind, id>>.
NoWaiter == <<"none", 0>>
ClientCut == <<"getChunk", 0>>          \* a client awaiting getChunk
ClientFinal == <<"getFinalChunk", 0>>   \* a client awaiting getFinalChunk

\* A Blob is the sequence of audio units it holds; null is the empty sequence
\* (the code only ever builds a Blob from at least one non-empty part).
Null == <<>>

RECURSIVE Flatten(_)
Flatten(parts) ==
    IF parts = <<>> THEN <<>> ELSE Head(parts) \o Flatten(Tail(parts))

VARIABLES
    rec,        \* rec[r]: the closure state of the r-th RecorderHandle
    tasks,      \* queued MediaRecorder stop tasks, FIFO: <<r, "stream" | "full">>
    callLog,    \* callLog[r]: the getChunk / getFinalChunk calls a client made on handle r
    cutLog,     \* cutLog[r]: the values the client's cut promises resolved with
    stopLog,    \* stopLog[r]: the client's stop calls on handle r and their resolutions
    streamingEnabled,    \* config.transcription.streaming.enabled
    includeSystemAudio,  \* config.ui.includeSystemAudio
    isRecording,         \* React state isRecording
    streamingSessionId,  \* React state streamingSessionId (0 is null)
    recorderRef,         \* recorderRef.current (0 is null)
    streamingIntervalRef,    \* streamingIntervalRef.current (0 is null)
    intervals,           \* the armed chunk timers, each named by its session id
    streamingBusyRef,    \* streamingBusyRef.current
    streamingChunkIndexRef,  \* streamingChunkIndexRef.current
    pendingStreamingChunkRef,    \* pendingStreamingChunkRef.current
    starts,     \* starts[r]: where the r-th handleStart call stands
    stops,      \* stops[p]: where the p-th handleStop call stands
    ticks,      \* ticks[t]: a chunk timer callback that is in flight
    invokes,    \* the backend commands invoked so far, in order
    startsOverlapped,   \* history: a handleStart call met another one in flight
    liveTranscript,     \* React state liveTranscript
    seen,       \* the transcribe_chunk invocations whose transcription-chunk event arrived
    results,    \* results[k]: the text the backend produced for chunk index k - 1
    errorLog,   \* the transcribe_chunk invocations whose transcription-error event was logged
    session,    \* the StreamingSession a client drives
    returns,    \* the texts the client's end calls returned, in order
    chunkDurationMs,    \* config.transcription.streaming.chunkDurationMs
    chunkTimer,         \* the chunk timer as handleStart armed it
    buffer,             \* the AudioBuffer handed to audioBufferToWav
    wavBuffer,          \* the bytes audioBufferToWav returned
    meetings,           \* React state meetings
    activeMeetingId,    \* React state activeMeetingId (0 is null)
    activeMeetingRef,   \* activeMeetingRef.current (0 is null)
    created,            \* history: the number of createMeeting calls
    loaded,             \* history: load_meetings has resolved
    commitLog,          \* history: the final transcripts handleStop committed
    shortcut,           \* the render whose handlers the registered hotkey callback closes over
    summarizer,         \* isSummarizing, summaryBufferRef.current and the summary streams started
    enhancer            \* selection, isEnhancingSelection, enhanceBufferRef.current,
                        \* enhanceContextRef.current and the enhancements started

recVars == <<rec, tasks, callLog, cutLog, stopLog>>
hostVars == <<streamingEnabled, includeSystemAudio, isRecording, streamingSessionId, recorderRef,
             streamingIntervalRef, intervals, streamingBusyRef,
             streamingChunkIndexRef, pendingStreamingChunkRef, starts, stops,
             ticks, invokes, startsOverlapped, liveTranscript, seen, results,
             errorLog>>
pureVars == <<chunkDurationMs, chunkTimer, buffer, wavBuffer>>
meetingVars == <<meetings, activeMeetingId, activeMeetingRef, created, loaded, commitLog>>
streamVars == <<summarizer, enhancer>>
appVars == <<hostVars, session, returns, pureVars, meetingVars, shortcut, streamVars>>
vars == <<rec, tasks, callLog, cutLog, stopLog, streamingEnabled, includeSystemAudio,
          isRecording,
          streamingSessionId, recorderRef, streamingIntervalRef, intervals,
          streamingBusyRef, streamingChunkIndexRef, pendingStreamingChunkRef,
          starts, stops, ticks, invokes, startsOverlapped, liveTranscript, seen,
          results, errorLog, session, returns, chunkDurationMs, chunkTimer,
          buffer, wavBuffer, meetings, activeMeetingId, activeMeetingRef, created,
          loaded, commitLog, shortcut, summarizer, enhancer>>

\* State of the closure before startRecorder has run for this handle.
NoHandle ==
    [created |-> FALSE, live |-> FALSE, teardowns |-> 0,
     fullState |-> "inactive", fullOnstop |-> NoWaiter, mixClock |-> 0,
     sr |-> "none", gathering |-> FALSE, recBuf |-> <<>>, streamParts |-> <<>>,
     delivered |-> <<>>,
     resolver |-> NoWaiter, streamActive |-> FALSE, streamWarmup |-> TRUE,
     systemAudioActive |-> FALSE,
     requested |-> FALSE, display |-> "none", openError |-> "none",
     errored |-> FALSE]

\* What getDisplayMedia({audio, video}) can do: reject, or resolve with a
\* stream that has an audio track, or with one that has none (audio is
\* optional in a display capture: the user shares a window, or leaves "share
\* audio" unticked). "none": it was not called.
DisplayOutcomes == {"rejected", "audio", "noAudio"}

\* startRecorder(includeSystemAudio). micOk: getUserMedia resolved; display:
\* the outcome of getDisplayMedia. A rejected getUserMedia rejects the call
\* before anything is created. systemAudioActive is set as soon as
\* getDisplayMedia resolves; createMediaStreamSource(systemStream) then throws
\* InvalidStateError on a stream without audio track, which rejects the call
\* with the microphone tracks and the audio context left open. Otherwise:
\* tracks live, fullRecorder started, no stream recorder yet, streamWarmup.
startRecorder(inc, micOk, display) ==
    LET sys == inc /\ display \in {"audio", "noAudio"} IN
    IF ~micOk
    THEN [NoHandle EXCEPT !.requested = inc, !.openError = "mic"]
    ELSE IF inc /\ display = "noAudio"
    THEN [NoHandle EXCEPT !.live = TRUE, !.requested = inc, !.display = display,
                          !.systemAudioActive = sys, !.openError = "graph"]
    ELSE [NoHandle EXCEPT !.created = TRUE, !.live = TRUE,
                          !.fullState = "recording",
                          !.requested = inc, !.display = display,
                          !.systemAudioActive = sys]

ensureStreamRecorder(h) ==
    IF h.sr # "none" THEN h
    ELSE [h EXCEPT !.sr = "recording", !.gathering = TRUE, !.recBuf = <<>>,
                   !.streamActive = TRUE]

\* getChunk with the warm-up flag left set.
getChunk_WarmupKept(h, w) ==
    LET e == ensureStreamRecorder(h) IN
    IF e.streamWarmup THEN [h |-> e, ret |-> "null"]
    ELSE IF e.sr # "recording" THEN [h |-> e, ret |-> "null"]
    ELSE IF e.resolver # NoWaiter THEN [h |-> e, ret |-> "null"]
    ELSE [h |-> [e EXCEPT !.resolver = w, !.sr = "inactive"], ret |-> "promise"]

\* getChunk, called with the continuation w that awaits its result. ret is what
\* the call returns: "null", or "promise" when the cut was started (stop()
\* was called on the stream recorder, which queues its stop task).
getChunk(h, w) ==
    LET e == ensureStreamRecorder(h) IN
    IF e.streamWarmup THEN [h |-> [e EXCEPT !.streamWarmup = FALSE], ret |-> "null"]
    ELSE IF e.sr # "recording" THEN [h |-> e, ret |-> "null"]
    ELSE IF e.resolver # NoWaiter THEN [h |-> e, ret |-> "null"]
    ELSE [h |-> [e EXCEPT !.resolver = w, !.sr = "inactive"], ret |-> "promise"]

\* getFinalChunk without the two single-flight checks.
getFinalChunk_NoGuard(h, w) ==
    IF h.sr = "none" THEN [h |-> h, ret |-> "null"]
    ELSE [h |-> [h EXCEPT !.streamActive = FALSE, !.resolver = w, !.sr = "inactive"],
          ret |-> "promise"]

getFinalChunk(h, w) ==
    IF h.sr = "none" THEN [h |-> h, ret |-> "null"]
    ELSE IF h.sr = "inactive" THEN [h |-> h, ret |-> "null"]
    ELSE IF h.resolver # NoWaiter THEN [h |-> h, ret |-> "null"]
    ELSE [h |-> [h EXCEPT !.streamActive = FALSE, !.resolver = w, !.sr = "inactive"],
          ret |-> "promise"]

\* streamRecorder.ondataavailable with the data gathered since start().
ondataavailable(h) ==
    IF Len(h.recBuf) > 0
    THEN [h EXCEPT !.streamParts = Append(@, h.recBuf), !.recBuf = <<>>]
    ELSE h

\* The blob streamRecorder.onstop hands to the resolver.
onstopBlob(h) == IF Len(h.streamParts) > 0 THEN Flatten(h.streamParts) ELSE Null

\* onstop that forgets to clear streamParts.
onstop_PartsKept(h) ==
    [h EXCEPT !.resolver = NoWaiter,
              !.sr = IF h.streamActive THEN "recording" ELSE "inactive",
              !.gathering = h.streamActive]

\* streamRecorder.onstop: parts cleared, resolver cleared, restart if active.
onstop(h) ==
    [h EXCEPT !.streamParts = <<>>, !.resolver = NoWaiter,
              !.sr = IF h.streamActive THEN "recording" ELSE "inactive",
              !.gathering = h.streamActive]

\* RecorderHandle.stop, called with the continuation w: installs
\* fullRecorder.onstop and calls fullRecorder.stop(), which does nothing on an
\* inactive recorder.
stop(h, w) == [h EXCEPT !.fullOnstop = w, !.fullState = "inactive"]

\* fullRecorder.onstop: tracks stopped, audio context closed.
fullOnstop(h) ==
    [h EXCEPT !.live = FALSE, !.teardowns = @ + 1, !.fullOnstop = NoWaiter]

\* One entry of callLog: the call, the recorder state it met (stream recorder
\* state, a resolver pending, units delivered by the mixer so far), what it
\* returned.
CallEntry(op, h, ret) ==
    [op |-> op, sr |-> h.sr, pending |-> h.resolver # NoWaiter,
     clock |-> h.mixClock, ret |-> ret]

\* One backend command, as the host invoked it.
Inv(cmd, sess, idx, r, audio) ==
    [cmd |-> cmd, sess |-> sess, idx |-> idx, rec |-> r, audio |-> audio]

FreeTick == [pc |-> "free", rec |-> 0, sess |-> 0, chunk |-> Null]
\* A text is a sequence of words; Space is the separator " ", ChunkText the
\* word that stands for the text the backend produced for a chunk, Word a
\* word of a spelled-out chunk text, AudioText the transcript of a full
\* recording.
Space == <<"space", 0, 0>>
ChunkText(sess, idx) == <<"chunk", sess, idx>>
AudioText(r) == <<"audio", r, 0>>
Word(w) == <<"word", w, 0>>

\* String.prototype.trim
RECURSIVE trim(_)
trim(text) ==
    IF text = <<>> THEN <<>>
    ELSE IF Head(text) = Space THEN trim(Tail(text))
    ELSE IF text[Len(text)] = Space THEN trim(SubSeq(text, 1, Len(text) - 1))
    ELSE text

\* A call of handleStop: its position, the recorder and the session id it
\* works on, the liveTranscript of its render, and what it did so far: how
\* end_streaming_session settled, for which session and with what text, and
\* the finalTranscript handed to updateActiveMeeting.
FreeStop ==
    [pc |-> "free", rec |-> 0, sess |-> 0, chunk |-> Null,
     timedOut |-> FALSE, midCut |-> FALSE, cutMark |-> 0,
     live |-> <<>>, ended |-> "none", endedSess |-> 0, merged |-> <<>>,
     committed |-> FALSE, final |-> <<>>]

\* handleStop returned: the call keeps what it did, and lets go of the rest.
DoneStop(st) ==
    [st EXCEPT !.pc = "done", !.rec = 0, !.sess = 0, !.chunk = Null,
               !.timedOut = FALSE, !.midCut = FALSE, !.cutMark = 0]

\* A StreamingSession before create: state, the next chunk index, the count
\* of pending chunks, the indices dispatched, the results received (ok[i] says
\* whether chunk i succeeded), the end calls waiting for their return, whether
\* the bounded wait of end has expired, how often Ended was entered, and the
\* merged text fixed on entering Ended.
NoSession ==
    [state |-> "None", nextChunkIndex |-> 0, pendingCount |-> 0,
     dispatched |-> {}, ok |-> {}, failed |-> {}, waiting |-> 0,
     expired |-> FALSE, entered |-> 0, merged |-> <<>>]

\* The configurations a run starts from: live transcription and system audio
\* are exercised one at a time.
Configs == {<<TRUE, FALSE>>, <<FALSE, FALSE>>, <<FALSE, TRUE>>}

\* The selection before any text was selected, and a null enhance context.
NoSelection == [field |-> "null", start |-> 0, end |-> 0]
NoContext ==
    [meetingId |-> 0, selectionId |-> 0, field |-> "null", prefix |-> <<>>, suffix |-> <<>>]

AppInit ==
    /\ rec = [r \in Recs |-> NoHandle]
    /\ tasks = <<>>
    /\ callLog = [r \in Recs |-> <<>>]
    /\ cutLog = [r \in Recs |-> <<>>]
    /\ stopLog = [r \in Recs |-> <<>>]
    /\ \E c \in Configs : streamingEnabled = c[1] /\ includeSystemAudio = c[2]
    /\ isRecording = FALSE
    /\ streamingSessionId = 0
    /\ recorderRef = 0
    /\ streamingIntervalRef = 0
    /\ intervals = {}
    /\ streamingBusyRef = FALSE
    /\ streamingChunkIndexRef = 0
    /\ pendingStreamingChunkRef = Null
    /\ starts = [r \in Recs |-> "idle"]
    /\ stops = [p \in StopIds |-> FreeStop]
    /\ ticks = [t \in TickIds |-> FreeTick]
    /\ invokes = <<>>
    /\ startsOverlapped = FALSE
    /\ liveTranscript = <<>>
    /\ seen = {}
    /\ errorLog = {}
    /\ session = NoSession
    /\ returns = <<>>
    /\ shortcut = [isRecording |-> FALSE, streamingSessionId |-> 0]
    /\ summarizer = [isSummarizing |-> FALSE, summaryBufferRef |-> <<>>, streams |-> <<>>]
    /\ enhancer = [selection |-> NoSelection, isEnhancingSelection |-> FALSE,
                   enhanceBufferRef |-> <<>>, enhanceContextRef |-> NoContext,
                   streams |-> <<>>]

\* A number is <<q, r>>, standing for q * 2^31 + r; undefined is the empty
\* tuple.
Undefined == <<>>

\* No chunk timer armed yet.
NoTimer == [armed |-> FALSE, intervalMs |-> <<0, 0>>, period |-> 0]

\* No AudioBuffer rendered yet.
NoBuffer == [sampleRate |-> 0, samples |-> <<>>]

TimerIdle == chunkDurationMs = Undefined /\ chunkTimer = NoTimer
EncoderIdle == buffer = NoBuffer /\ wavBuffer = <<>>

\* The meeting state as the component is constructed: no meeting loaded.
MeetingIdle ==
    /\ meetings = <<>>
    /\ activeMeetingId = 0
    /\ activeMeetingRef = 0
    /\ created = 0
    /\ loaded = FALSE
    /\ commitLog = <<>>

Init == AppInit /\ results = <<>> /\ TimerIdle /\ EncoderIdle /\ MeetingIdle

\* ------------------------------------------------- the recorder on its own
\* A client drives one RecorderHandle through its interface, calling at any
\* moment; the application state stays as constructed.

\* The mixed signal delivers one more unit of audio to handle r; the stream
\* recorder gathers it while it is gathering.
gather(h) ==
    [h EXCEPT !.mixClock = @ + 1,
              !.recBuf = IF h.gathering THEN Append(@, h.mixClock + 1) ELSE @,
              !.delivered = IF h.gathering THEN Append(@, h.mixClock + 1) ELSE @]

\* The units of audio delivered so far, over all recordings.
Delivered == LET sum[r \in 0..MaxRec] == IF r = 0 THEN 0 ELSE sum[r - 1] + rec[r].mixClock
             IN sum[MaxRec]

ClientCapture ==
    /\ rec[1].created
    /\ rec[1].live
    /\ Delivered < MaxAudio
    /\ rec' = [rec EXCEPT ![1] = gather(@)]
    /\ UNCHANGED <<tasks, callLog, cutLog, stopLog, appVars>>

ClientStartRecorder ==
    /\ ~rec[1].created
    /\ rec[1].openError = "none"
    /\ \E inc \in BOOLEAN : \E micOk \in BOOLEAN :
         \E display \in (IF inc THEN DisplayOutcomes ELSE {"none"}) :
             rec' = [rec EXCEPT ![1] = startRecorder(inc, micOk, display)]
    /\ UNCHANGED <<tasks, callLog, cutLog, stopLog, appVars>>

ClientGetChunk ==
    /\ rec[1].created
    /\ Len(callLog[1]) < MaxCalls
    /\ LET res == getChunk(rec[1], ClientCut) IN
        /\ rec' = [rec EXCEPT ![1] = res.h]
        /\ tasks' = IF res.ret = "promise" THEN Append(tasks, <<1, "stream">>) ELSE tasks
        /\ callLog' = [callLog EXCEPT ![1] = Append(@, CallEntry("getChunk", rec[1], res.ret))]
    /\ UNCHANGED <<cutLog, stopLog, appVars>>

ClientGetFinalChunk ==
    /\ rec[1].created
    /\ Len(callLog[1]) < MaxCalls
    /\ LET res == getFinalChunk(rec[1], ClientFinal) IN
        /\ rec' = [rec EXCEPT ![1] = res.h]
        /\ tasks' = IF res.ret = "promise" THEN Append(tasks, <<1, "stream">>) ELSE tasks
        /\ callLog' = [callLog EXCEPT ![1] = Append(@, CallEntry("getFinalChunk", rec[1], res.ret))]
    /\ UNCHANGED <<cutLog, stopLog, appVars>>

\* A client's k-th call of stop(); the promise it awaits is <<"client", k>>.
ClientStop ==
    /\ rec[1].created
    /\ LET k == Len(SelectSeq(stopLog[1], LAMBDA e : e.ev = "call")) + 1 IN
        /\ k <= MaxStops
        /\ rec' = [rec EXCEPT ![1] = stop(@, <<"client", k>>)]
        /\ stopLog' = [stopLog EXCEPT ![1] = Append(@, [ev |-> "call", id |-> k])]
    /\ tasks' = IF rec[1].fullState = "recording" THEN Append(tasks, <<1, "full">>) ELSE tasks
    /\ UNCHANGED <<callLog, cutLog, appVars>>

\* The stream recorder's stop task: dataavailable, then onstop.
ClientStreamTask ==
    /\ tasks # <<>>
    /\ Head(tasks)[2] = "stream"
    /\ LET d == ondataavailable(rec[1]) IN
        /\ rec' = [rec EXCEPT ![1] = onstop(d)]
        /\ cutLog' = [cutLog EXCEPT ![1] =
                          IF d.resolver # NoWaiter
                          THEN Append(@, [op |-> d.resolver[1], blob |-> onstopBlob(d)])
                          ELSE @]
    /\ tasks' = Tail(tasks)
    /\ UNCHANGED <<callLog, stopLog, appVars>>

ClientFullTask ==
    /\ tasks # <<>>
    /\ Head(tasks)[2] = "full"
    /\ rec' = [rec EXCEPT ![1] = fullOnstop(@)]
    /\ stopLog' = [stopLog EXCEPT ![1] =
                       IF rec[1].fullOnstop # NoWaiter
                       THEN Append(@, [ev |-> "resolved", id |-> rec[1].fullOnstop[2]])
                       ELSE @]
    /\ tasks' = Tail(tasks)
    /\ UNCHANGED <<callLog, cutLog, appVars>>

RecNext ==
    \/ ClientCapture
    \/ ClientStartRecorder
    \/ ClientGetChunk
    \/ ClientGetFinalChunk
    \/ ClientStop
    \/ ClientStreamTask
    \/ ClientFullTask

RecSpec == Init /\ [][RecNext]_vars

\* The recorder with a device that can fail. When a MediaRecorder cannot go on
\* gathering data the browser makes it inactive and fires error, then
\* dataavailable with what it gathered, then stop. The stream recorder has
\* no error handler, so what runs is ondataavailable and onstop.
ClientRecorderError ==
    /\ rec[1].created
    /\ rec[1].sr = "recording"
    /\ ~rec[1].errored
    /\ rec' = [rec EXCEPT ![1] =
                  onstop(ondataavailable([@ EXCEPT !.errored = TRUE, !.sr = "inactive",
                                                   !.gathering = FALSE]))]
    /\ UNCHANGED <<tasks, callLog, cutLog, stopLog, appVars>>

ErrorNext ==
    \/ ClientCapture
    \/ ClientStartRecorder
    \/ ClientGetChunk
    \/ ClientGetFinalChunk
    \/ ClientStop
    \/ ClientStreamTask
    \/ ClientFullTask
    \/ ClientRecorderError

ErrorSpec == Init /\ [][ErrorNext]_vars

\* ---------------------------------------------------------- the application
\* The handlers of App are functions from state to state, so that a handler
\* runs on from a settled await to its next one inside one action.
St ==
    [rec |-> rec, tasks |-> tasks, isRecording |-> isRecording,
     streamingSessionId |-> streamingSessionId, recorderRef |-> recorderRef,
     streamingIntervalRef |-> streamingIntervalRef, intervals |-> intervals,
     streamingBusyRef |-> streamingBusyRef,
     streamingChunkIndexRef |-> streamingChunkIndexRef,
     pendingStreamingChunkRef |-> pendingStreamingChunkRef,
     starts |-> starts, stops |-> stops, ticks |-> ticks,
     invokes |-> invokes, startsOverlapped |-> startsOverlapped,
     liveTranscript |-> liveTranscript, seen |-> seen, errorLog |-> errorLog]

ApplyHost(s) ==
    /\ rec' = s.rec
    /\ tasks' = s.tasks
    /\ isRecording' = s.isRecording
    /\ streamingSessionId' = s.streamingSessionId
    /\ recorderRef' = s.recorderRef
    /\ streamingIntervalRef' = s.streamingIntervalRef
    /\ intervals' = s.intervals
    /\ streamingBusyRef' = s.streamingBusyRef
    /\ streamingChunkIndexRef' = s.streamingChunkIndexRef
    /\ pendingStreamingChunkRef' = s.pendingStreamingChunkRef
    /\ starts' = s.starts
    /\ stops' = s.stops
    /\ ticks' = s.ticks
    /\ invokes' = s.invokes
    /\ startsOverlapped' = s.startsOverlapped
    /\ liveTranscript' = s.liveTranscript
    /\ seen' = s.seen
    /\ errorLog' = s.errorLog
    /\ UNCHANGED <<callLog, cutLog, stopLog, streamingEnabled, includeSystemAudio,
                   results, session, returns, pureVars, meetingVars, streamVars>>

\* A handler invoked from the rendered controls: the hotkey registration is
\* left as it is (its effect is modelled by the actions that change
\* isRecording under HotkeySpec).
Apply(s) == ApplyHost(s) /\ UNCHANGED shortcut

\* -- handleStart
\* The call up to `await startRecorder(...)`. The guard of the action is the
\* isRecording of the render the handler belongs to.
handleStart(s, r) ==
    [s EXCEPT !.starts[r] = "acquire",
              !.startsOverlapped =
                  @ \/ \E q \in Recs : s.starts[q] \in {"acquire", "session"}]

\* startRecorder settled. When it rejected, the catch block runs. Otherwise
\* the handle is stored and, with streaming enabled, start_streaming_session
\* is invoked.
handleStartRecorder(s, r, micOk, display) ==
    LET h == startRecorder(includeSystemAudio, micOk, display) IN
    IF ~h.created
    THEN [s EXCEPT !.rec[r] = h, !.isRecording = FALSE, !.starts[r] = "done"]
    ELSE [s EXCEPT !.rec[r] = h,
                   !.recorderRef = r,
                   !.isRecording = TRUE,
                   !.liveTranscript = <<>>,
                   !.starts[r] = IF streamingEnabled THEN "session" ELSE "done"]

\* start_streaming_session settled: on success the session id is stored, the
\* chunk index is reset and the chunk timer armed.
handleStartSession(s, r, ok) ==
    IF ~ok
    THEN [s EXCEPT !.starts[r] = "done"]
    ELSE [s EXCEPT !.streamingSessionId = r,
                   !.streamingChunkIndexRef = 0,
                   !.intervals = @ \cup {r},
                   !.streamingIntervalRef = r,
                   !.starts[r] = "done"]

\* -- the chunk timer callback
\* The finally block with the busy flag left set.
tickFinally_BusyKept(s, t) == [s EXCEPT !.ticks[t] = FreeTick]

tickFinally(s, t) ==
    [s EXCEPT !.streamingBusyRef = FALSE, !.ticks[t] = FreeTick]

\* One firing of the timer armed for session iv, up to `await getChunk()`;
\* t is the slot that holds the callback if it stays in flight.
tick(s, iv, t) ==
    IF s.streamingBusyRef THEN s
    ELSE IF s.recorderRef = 0 THEN s
    ELSE LET r == s.recorderRef
             res == getChunk(s.rec[r], <<"tick", t>>)
         IN IF res.ret = "null"
            THEN [s EXCEPT !.rec[r] = res.h, !.streamingBusyRef = FALSE]
            ELSE [s EXCEPT !.rec[r] = res.h,
                           !.tasks = Append(@, <<r, "stream">>),
                           !.streamingBusyRef = TRUE,
                           !.ticks[t] = [pc |-> "cut", rec |-> r, sess |-> iv,
                                         chunk |-> Null]]

\* getChunk resolved with blob.
tickChunk(s, t, blob) ==
    IF blob = Null THEN tickFinally(s, t)
    ELSE [s EXCEPT !.ticks[t].pc = "encode", !.ticks[t].chunk = blob]

\* blobToWavBase64 settled: the index is taken and transcribe_chunk invoked.
tickEncoded(s, t, ok) ==
    IF ~ok THEN tickFinally(s, t)
    ELSE [s EXCEPT !.streamingChunkIndexRef = @ + 1,
                   !.invokes = Append(@, Inv("transcribe_chunk", s.ticks[t].sess,
                                             s.streamingChunkIndexRef,
                                             s.ticks[t].rec, s.ticks[t].chunk)),
                   !.ticks[t].pc = "invoke"]

\* transcribe_chunk settled: a rejection is caught and logged, then the
\* finally block runs in either case.
tickInvoked(s, t, ok) == tickFinally(s, t)

\* -- handleStop
\* The catch block of handleStop: the error is shown and logged.
stopFailed(s, p) == [s EXCEPT !.stops[p] = DoneStop(@)]

\* The end of the try block: finalTranscript appended to the meeting's
\* transcript, live transcript cleared, index reset.
stopCommit(s, p, finalTranscript) ==
    [s EXCEPT !.liveTranscript = <<>>,
              !.streamingChunkIndexRef = 0,
              !.stops[p] = DoneStop([@ EXCEPT !.committed = TRUE,
                                              !.final = finalTranscript])]

\* shouldUseStreaming with the live transcript left out of it.
shouldUseStreaming_MergedOnly(mergedText, liveText) ==
    streamingEnabled /\ mergedText # <<>>

shouldUseStreaming(mergedText, liveText) ==
    streamingEnabled /\ (mergedText # <<>> \/ liveText # <<>>)

\* After the session was ended: use the streaming transcript or go on to the
\* batch transcription of the full recording.
stopTranscribe(s, p, mergedTranscript) ==
    LET mergedText == trim(mergedTranscript)
        liveText == trim(s.stops[p].live)
    IN IF shouldUseStreaming(mergedText, liveText)
       THEN stopCommit(s, p, IF mergedText # <<>> THEN mergedText ELSE liveText)
       ELSE [s EXCEPT !.stops[p].pc = "batchEncode"]

\* "End streaming session if active".
stopEndSession(s, p) ==
    IF s.stops[p].sess # 0
    THEN [s EXCEPT !.invokes = Append(@, Inv("end_streaming_session",
                                             s.stops[p].sess, 0, s.stops[p].rec, Null)),
                   !.stops[p].pc = "ending"]
    ELSE stopTranscribe(s, p, <<>>)

\* getFinalChunk resolved with finalChunk: combined with the pending chunk.
stopCombine(s, p, finalChunk) ==
    LET pending == s.pendingStreamingChunkRef
        combined == IF pending # Null /\ finalChunk # Null
                    THEN pending \o finalChunk
                    ELSE IF pending # Null THEN pending ELSE finalChunk
        c == [s EXCEPT !.pendingStreamingChunkRef = Null]
    IN IF combined # Null
       THEN [c EXCEPT !.stops[p].pc = "finalEncode", !.stops[p].chunk = combined]
       ELSE stopEndSession(c, p)

\* waitForStreamingIdle returned: the final cut is requested.
stopFlush(s, p) ==
    LET r == s.stops[p].rec
        res == getFinalChunk(s.rec[r], <<"stop", p>>)
    IN IF res.ret = "promise"
       THEN [s EXCEPT !.rec[r] = res.h,
                      !.tasks = Append(@, <<r, "stream">>),
                      !.stops[p].pc = "finalCut"]
       ELSE stopCombine(s, p, Null)

\* waitForStreamingIdle without the test of the elapsed time.
waitForStreamingIdle_NoTimeout(s, p, elapsed) ==
    IF ~s.streamingBusyRef THEN stopFlush(s, p)
    ELSE [s EXCEPT !.stops[p].pc = "waitIdle"]

\* waitForStreamingIdle: one look at the busy flag; elapsed says whether more
\* than timeoutMs have passed since the wait began.
waitForStreamingIdle(s, p, elapsed) ==
    IF ~s.streamingBusyRef THEN stopFlush(s, p)
    ELSE IF elapsed THEN stopFlush([s EXCEPT !.stops[p].timedOut = TRUE], p)
    ELSE [s EXCEPT !.stops[p].pc = "waitIdle"]

\* recorder.stop() resolved.
stopRecorderStopped(s, p) ==
    LET c == [s EXCEPT !.recorderRef = 0] IN
    IF streamingEnabled /\ s.stops[p].sess # 0
    THEN waitForStreamingIdle(c, p, FALSE)
    ELSE stopEndSession(c, p)

\* The call up to `await recorder.stop()`; sess is the streamingSessionId of
\* the render the handler belongs to. midCut and cutMark record what the call
\* met: a regular cut pending, and how much audio completed cuts had handed out.
handleStop(s, p, sess) ==
    LET r == s.recorderRef IN
    [s EXCEPT !.isRecording = FALSE,
              !.intervals = @ \ {s.streamingIntervalRef},
              !.streamingIntervalRef = 0,
              !.streamingBusyRef = FALSE,
              !.rec[r] = stop(@, <<"stop", p>>),
              !.tasks = IF s.rec[r].fullState = "recording"
                        THEN Append(@, <<r, "full">>) ELSE @,
              !.stops[p] = [FreeStop EXCEPT
                            !.pc = "stopping", !.rec = r, !.sess = sess,
                            !.live = s.liveTranscript,
                            !.midCut = s.rec[r].resolver[1] = "tick",
                            !.cutMark = Len(s.rec[r].delivered) - Len(s.rec[r].recBuf)]]

\* blobToWavBase64 of the combined final chunk settled.
stopFinalEncoded(s, p, ok) ==
    IF ~ok THEN stopEndSession(s, p)
    ELSE [s EXCEPT !.streamingChunkIndexRef = @ + 1,
                   !.invokes = Append(@, Inv("transcribe_chunk", s.stops[p].sess,
                                             s.streamingChunkIndexRef,
                                             s.stops[p].rec, s.stops[p].chunk)),
                   !.stops[p].pc = "finalInvoke"]

\* end_streaming_session settled: it returned the text merged, or it rejected
\* and mergedTranscript stays "".
stopEnded(s, p, ok, merged) ==
    LET mergedTranscript == IF ok THEN merged ELSE <<>> IN
    stopTranscribe([s EXCEPT !.streamingSessionId = 0,
                             !.stops[p].ended = IF ok THEN "returned" ELSE "rejected",
                             !.stops[p].endedSess = s.stops[p].sess,
                             !.stops[p].merged = mergedTranscript],
                   p, mergedTranscript)

\* blobToWavBase64 of the full recording settled.
stopBatchEncoded(s, p, ok) ==
    IF ~ok THEN stopFailed(s, p)
    ELSE [s EXCEPT !.invokes = Append(@, Inv("transcribe_audio", 0, 0,
                                             s.stops[p].rec, Null)),
                   !.stops[p].pc = "batchInvoke"]

\* transcribe_audio settled.
stopBatchTranscribed(s, p, ok) ==
    IF ~ok THEN stopFailed(s, p)
    ELSE stopCommit(s, p, <<AudioText(s.stops[p].rec)>>)

\* -- MediaRecorder stop tasks
streamTask(s) ==
    LET r == Head(s.tasks)[1]
        d == ondataavailable(s.rec[r])
        w == d.resolver
        c == [s EXCEPT !.rec[r] = onstop(d), !.tasks = Tail(@)]
    IN IF w[1] = "tick" THEN tickChunk(c, w[2], onstopBlob(d))
       ELSE IF w[1] = "stop" THEN stopCombine(c, w[2], onstopBlob(d))
       ELSE c

fullTask(s) ==
    LET r == Head(s.tasks)[1]
        w == s.rec[r].fullOnstop
        c == [s EXCEPT !.rec[r] = fullOnstop(@), !.tasks = Tail(@)]
    IN IF w[1] = "stop" THEN stopRecorderStopped(c, w[2]) ELSE c

\* -- the transcription-chunk listener
listener(s, text) ==
    [s EXCEPT !.liveTranscript = @ \o <<Space>> \o text]

\* -- the transcription-error listener, with the live transcript cleared
errorListener_Cleared(s, i) ==
    [s EXCEPT !.errorLog = @ \cup {i}, !.liveTranscript = <<>>]

\* -- the transcription-error listener: the error is logged
errorListener(s, i) == [s EXCEPT !.errorLog = @ \cup {i}]

\* ------------------------------------------------- the streaming backend
\* The transcribe_chunk invocations of session sess, as positions in invokes.
ChunksOf(sess) ==
    {i \in 1..Len(invokes) :
        invokes[i].cmd = "transcribe_chunk" /\ invokes[i].sess = sess}

\* TranscriptMerger.merge of the results for the invocations in S: sorted by
\* chunk index, joined with one separator.
RECURSIVE merge(_)
merge(S) ==
    IF S = {} THEN <<>>
    ELSE LET i == CHOOSE x \in S : \A y \in S :
                      \/ invokes[x].idx < invokes[y].idx
                      \/ invokes[x].idx = invokes[y].idx /\ x <= y
             rest == merge(S \ {i})
         IN <<ChunkText(invokes[i].sess, invokes[i].idx)>>
            \o (IF rest = <<>> THEN <<>> ELSE <<Space>> \o rest)

\* What end(sess) can return with every call taken for the first one.
MergedTexts_Fresh(sess) ==
    {merge(S) : S \in {T \in SUBSET (ChunksOf(sess) \ errorLog) :
                            seen \cap ChunksOf(sess) \subseteq T}}

\* What end(sess) can return: the merge of the chunks that succeeded before
\* it returned, which include those whose result has already been emitted
\* and none of those that failed; for a session that has ended, the text it
\* ended with.
MergedTexts(sess) ==
    LET ended == {p \in StopIds : stops[p].ended = "returned" /\ stops[p].endedSess = sess}
    IN IF ended # {}
       THEN {stops[p].merged : p \in ended}
       ELSE {merge(S) : S \in {T \in SUBSET (ChunksOf(sess) \ errorLog) :
                                   seen \cap ChunksOf(sess) \subseteq T}}

\* ------------------------------------------------------------------ actions
\* The Start button (shown while isRecording is false).
Start(r) ==
    /\ ~isRecording
    /\ starts[r] = "idle"
    /\ \A q \in Recs : q < r => starts[q] # "idle"
    /\ Apply(handleStart(St, r))

StartRecorderSettled(r) ==
    /\ starts[r] = "acquire"
    /\ \E micOk \in BOOLEAN :
         \E display \in (IF includeSystemAudio THEN DisplayOutcomes ELSE {"none"}) :
             Apply(handleStartRecorder(St, r, micOk, display))

StartSessionSettled(r) ==
    /\ starts[r] = "session"
    /\ \E ok \in BOOLEAN : Apply(handleStartSession(St, r, ok))

\* The Stop button (shown while isRecording is true); handleStop returns at
\* once when recorderRef.current is null.
Stop(p) ==
    /\ isRecording
    /\ recorderRef # 0
    /\ stops[p].pc = "free"
    /\ \A q \in StopIds : q < p => stops[q].pc # "free"
    /\ Apply(handleStop(St, p, streamingSessionId))

\* Audio reaches the stream recorder of handle r (audio that arrives while
\* no stream recorder gathers changes nothing the application reads).
Capture(r) ==
    /\ rec[r].live
    /\ rec[r].gathering
    /\ Delivered < MaxAudio
    /\ Apply([St EXCEPT !.rec[r] = gather(@)])

Tick(iv) ==
    /\ iv \in intervals
    /\ \E t \in TickIds :
        /\ ticks[t].pc = "free"
        /\ \A u \in TickIds : u < t => ticks[u].pc # "free"
        /\ Apply(tick(St, iv, t))

StreamTask ==
    /\ tasks # <<>>
    /\ Head(tasks)[2] = "stream"
    /\ Apply(streamTask(St))

FullTask ==
    /\ tasks # <<>>
    /\ Head(tasks)[2] = "full"
    /\ Apply(fullTask(St))

TickEncodeSettled(t) ==
    /\ ticks[t].pc = "encode"
    /\ \E ok \in BOOLEAN : Apply(tickEncoded(St, t, ok))

TickInvokeSettled(t) ==
    /\ ticks[t].pc = "invoke"
    /\ \E ok \in BOOLEAN : Apply(tickInvoked(St, t, ok))

\* The 50 ms sleep of waitForStreamingIdle is over.
StopWaitPoll(p) ==
    /\ stops[p].pc = "waitIdle"
    /\ \E elapsed \in BOOLEAN : Apply(waitForStreamingIdle(St, p, elapsed))

StopFinalEncodeSettled(p) ==
    /\ stops[p].pc = "finalEncode"
    /\ \E ok \in BOOLEAN : Apply(stopFinalEncoded(St, p, ok))

StopFinalInvokeSettled(p) ==
    /\ stops[p].pc = "finalInvoke"
    /\ Apply(stopEndSession(St, p))

\* end_streaming_session resolved.
StopEndSettled(p) ==
    /\ stops[p].pc = "ending"
    /\ \E merged \in MergedTexts(stops[p].sess) :
         Apply(stopEnded(St, p, TRUE, merged))

StopBatchEncodeSettled(p) ==
    /\ stops[p].pc = "batchEncode"
    /\ \E ok \in BOOLEAN : Apply(stopBatchEncoded(St, p, ok))

StopBatchInvokeSettled(p) ==
    /\ stops[p].pc = "batchInvoke"
    /\ \E ok \in BOOLEAN : Apply(stopBatchTranscribed(St, p, ok))

Next ==
    \/ \E r \in Recs : Start(r)
    \/ \E r \in Recs : StartRecorderSettled(r)
    \/ \E r \in Recs : StartSessionSettled(r)
    \/ \E p \in StopIds : Stop(p)
    \/ \E r \in Recs : Capture(r)
    \/ \E iv \in Recs : Tick(iv)
    \/ StreamTask
    \/ FullTask
    \/ \E t \in TickIds : TickEncodeSettled(t)
    \/ \E t \in TickIds : TickInvokeSettled(t)
    \/ \E p \in StopIds : StopWaitPoll(p)
    \/ \E p \in StopIds : StopFinalEncodeSettled(p)
    \/ \E p \in StopIds : StopFinalInvokeSettled(p)
    \/ \E p \in StopIds : StopEndSettled(p)
    \/ \E p \in StopIds : StopBatchEncodeSettled(p)
    \/ \E p \in StopIds : StopBatchInvokeSettled(p)

Spec == Init /\ [][Next]_vars

\* ------------------------------------------------ with the events delivered
\* The transcription-chunk event for invocation i reaches the listener: at
\* most once per chunk, at any time after the chunk was dispatched.
ChunkEvent(i) ==
    /\ invokes[i].cmd = "transcribe_chunk"
    /\ i \notin seen
    /\ i \notin errorLog
    /\ Apply([listener(St, <<ChunkText(invokes[i].sess, invokes[i].idx)>>)
                EXCEPT !.seen = @ \cup {i}])

\* The transcription-error event for invocation i reaches its listener: for
\* a chunk that has produced no text, at most once.
ErrorEvent(i) ==
    /\ invokes[i].cmd = "transcribe_chunk"
    /\ i \notin seen
    /\ i \notin errorLog
    /\ \A p \in StopIds : \A k \in 1..Len(stops[p].merged) :
           stops[p].merged[k] # ChunkText(invokes[i].sess, invokes[i].idx)
    /\ Apply(errorListener(St, i))

\* end_streaming_session rejected.
StopEndRejected(p) ==
    /\ stops[p].pc = "ending"
    /\ Apply(stopEnded(St, p, FALSE, <<>>))

\* The Start button pressed while no handleStart and no handleStop call is
\* under way: one recording at a time.
LiveStart(r) ==
    /\ \A q \in Recs : starts[q] \in {"idle", "done"}
    /\ \A p \in StopIds : stops[p].pc \in {"free", "done"}
    /\ Start(r)

LiveNext ==
    \/ \E r \in Recs : LiveStart(r)
    \/ \E r \in Recs : StartRecorderSettled(r)
    \/ \E r \in Recs : StartSessionSettled(r)
    \/ \E p \in StopIds : Stop(p)
    \/ \E r \in Recs : Capture(r)
    \/ \E iv \in Recs : Tick(iv)
    \/ StreamTask
    \/ FullTask
    \/ \E t \in TickIds : TickEncodeSettled(t)
    \/ \E t \in TickIds : TickInvokeSettled(t)
    \/ \E p \in StopIds : StopWaitPoll(p)
    \/ \E p \in StopIds : StopFinalEncodeSettled(p)
    \/ \E p \in StopIds : StopFinalInvokeSettled(p)
    \/ \E p \in StopIds : StopEndSettled(p)
    \/ \E p \in StopIds : StopEndRejected(p)
    \/ \E p \in StopIds : StopBatchEncodeSettled(p)
    \/ \E p \in StopIds : StopBatchInvokeSettled(p)
    \/ \E i \in 1..Len(invokes) : ChunkEvent(i)
    \/ \E i \in 1..Len(invokes) : ErrorEvent(i)

LiveSpec == Init /\ [][LiveNext]_vars

\* ------------------------------------------------- the chunk timer interval
DurationStep == 250

\* The configured durations: undefined, a negative one, and q * 2^31 + r for
\* r around the two values the code names and at the top of its range.
Durations ==
    {Undefined, <<0, -1>>, <<0, -5000>>}
        \cup {<<q, r>> : q \in 0..MaxWraps,
                         r \in {DurationStep * k : k \in 0..MaxDurationSteps}
                                  \cup {999, 1001, 2147483647}}

\* const intervalMs = Math.max(1000, chunkDurationMs ?? 5000)
intervalMs(duration) ==
    LET d == IF duration = Undefined THEN <<0, 5000>> ELSE duration
    IN IF d[1] > 0 \/ d[2] >= 1000 THEN d ELSE <<0, 1000>>

\* The conversion of a number to a WebIDL long: modulo 2^32, into the range
\* -2^31 .. 2^31 - 1.
ToInt32(n) ==
    IF n[1] % 2 = 0 THEN n[2] ELSE (n[2] - 2147483647) - 1

\* window.setInterval(handler, timeout): the period in ms of the timer it
\* arms. timeout is a WebIDL long, and a negative one is taken for 0.
setInterval(timeout) ==
    LET t == ToInt32(timeout) IN IF t < 0 THEN 0 ELSE t

IntervalInit ==
    /\ AppInit
    /\ streamingEnabled
    /\ results = <<>>
    /\ EncoderIdle
    /\ chunkTimer = NoTimer
    /\ chunkDurationMs \in Durations
    /\ MeetingIdle

\* handleStart arms the chunk timer.
ArmChunkTimer ==
    /\ ~chunkTimer.armed
    /\ chunkTimer' = [armed |-> TRUE,
                      intervalMs |-> intervalMs(chunkDurationMs),
                      period |-> setInterval(intervalMs(chunkDurationMs))]
    /\ UNCHANGED <<recVars, hostVars, session, returns, chunkDurationMs, buffer, wavBuffer,
                   meetingVars, shortcut, streamVars>>

IntervalNext == ArmChunkTimer

IntervalSpec == IntervalInit /\ [][IntervalNext]_vars

\* ------------------------------------------------------- the WAV encoder
\* Bytes are the numbers 0..255; an ArrayBuffer is the sequence of its bytes.
SampleRates == {8000, 16000, 44100, 48000}

\* The rendered buffers: one channel of 1..MaxSamples samples. A sample is a
\* whole number here; those beyond -1 and 1 are there for the clamp.
Buffers ==
    {[sampleRate |-> rate, samples |-> data] :
        rate \in SampleRates,
        data \in UNION {[1..n -> (-MaxAmplitude)..MaxAmplitude] : n \in 1..MaxSamples}}

charCodeAt(c) ==
    CASE c = "R" -> 82 [] c = "I" -> 73 [] c = "F" -> 70 [] c = "W" -> 87
      [] c = "A" -> 65 [] c = "V" -> 86 [] c = "E" -> 69 [] c = "f" -> 102
      [] c = "m" -> 109 [] c = "t" -> 116 [] c = " " -> 32 [] c = "d" -> 100
      [] c = "a" -> 97

\* writeString: one setUint8 per character.
writeString(value) == [i \in 1..Len(value) |-> charCodeAt(value[i])]

\* view.setUint32(offset, v, false): most significant byte first.
setUint32_BigEndian(v) ==
    <<(v \div 16777216) % 256, (v \div 65536) % 256, (v \div 256) % 256, v % 256>>

\* view.setUint32(offset, v, true): least significant byte first. The
\* reduction modulo 2^32 is the identity on the values met here, all below 2^31.
setUint32(v) ==
    <<v % 256, (v \div 256) % 256, (v \div 65536) % 256, (v \div 16777216) % 256>>

\* view.setUint16(offset, v, true); view.setInt16 stores the same two bytes
\* for v modulo 2^16.
setUint16(v) ==
    LET w == v % 65536 IN <<w % 256, (w \div 256) % 256>>

setInt16(v) == setUint16(v)

\* The body of the sample loop: clamp to [-1, 1], scale, store.
writeSample(x) ==
    LET sample == IF x < -1 THEN -1 ELSE IF x > 1 THEN 1 ELSE x
    IN setInt16(IF sample < 0 THEN sample * 32768 ELSE sample * 32767)

RECURSIVE writeSamples(_)
writeSamples(data) ==
    IF data = <<>> THEN <<>> ELSE writeSample(Head(data)) \o writeSamples(Tail(data))

\* audioBufferToWav: the buffer of bufferSize zero bytes with the header and
\* the samples written from offset 0 on.
audioBufferToWav(b) ==
    LET numChannels == 1
        sampleRate == b.sampleRate
        bytesPerSample == 2
        blockAlign == numChannels * bytesPerSample
        byteRate == sampleRate * blockAlign
        dataSize == Len(b.samples) * bytesPerSample
        bufferSize == 44 + dataSize
        written == writeString(<<"R", "I", "F", "F">>)
                   \o setUint32(36 + dataSize)
                   \o writeString(<<"W", "A", "V", "E">>)
                   \o writeString(<<"f", "m", "t", " ">>)
                   \o setUint32(16)
                   \o setUint16(1)
                   \o setUint16(numChannels)
                   \o setUint32(sampleRate)
                   \o setUint32(byteRate)
                   \o setUint16(blockAlign)
                   \o setUint16(bytesPerSample * 8)
                   \o writeString(<<"d", "a", "t", "a">>)
                   \o setUint32(dataSize)
                   \o writeSamples(b.samples)
    IN [i \in 1..bufferSize |-> IF i <= Len(written) THEN written[i] ELSE 0]

WavInit ==
    /\ AppInit
    /\ streamingEnabled
    /\ results = <<>>
    /\ TimerIdle
    /\ wavBuffer = <<>>
    /\ buffer \in Buffers
    /\ MeetingIdle

\* blobToWavBase64 hands the rendered buffer to audioBufferToWav.
Encode ==
    /\ wavBuffer = <<>>
    /\ wavBuffer' = audioBufferToWav(buffer)
    /\ UNCHANGED <<recVars, hostVars, session, returns, chunkDurationMs, chunkTimer, buffer,
                   meetingVars, shortcut, streamVars>>

WavNext == Encode

WavSpec == WavInit /\ [][WavNext]_vars

\* ------------------------------------------------------------ the meetings
\* The meeting list on its own: load_meetings settles, the user picks and
\* adds meetings, and handleStop calls commit their final transcripts. The
\* effect that copies activeMeetingId into activeMeetingRef runs in the commit
\* of the render that changed it, before another handler runs.
Newline == <<"newline", 0, 0>>

Times == 1..MaxClock

\* A stored meeting: written at time 0, with or without a transcript.
StoredMeeting(id, transcript) ==
    [id |-> id, title |-> <<Word(id)>>, notes |-> <<>>, transcript |-> transcript,
     summary |-> <<>>, actionItems |-> <<>>, createdAt |-> 0, updatedAt |-> 0]

\* What load_meetings can return: up to MaxLoaded stored meetings.
StoredLists ==
    UNION {[1..n -> {StoredMeeting(0, t) : t \in {<<>>, <<Word(1)>>}}] : n \in 0..MaxLoaded}

StoredData == {[i \in 1..Len(l) |-> [l[i] EXCEPT !.id = i, !.title = <<Word(i)>>]] : l \in StoredLists}

\* crypto.randomUUID(): an id no stored meeting and no earlier call has.
randomUUID == MaxLoaded + created + 1

createMeeting(now) ==
    [id |-> randomUUID, title |-> <<>>, notes |-> <<>>, transcript |-> <<>>,
     summary |-> <<>>, actionItems |-> <<>>, createdAt |-> now, updatedAt |-> now]

\* The meetings of the list, the domain of an updater.
Listed == {meetings[i] : i \in 1..Len(meetings)}

\* updateActiveMeeting(updater), updater given as a function on the listed
\* meetings.
updateActiveMeeting(list, updater) ==
    LET targetId == activeMeetingRef IN
    IF targetId = 0 THEN list
    ELSE [i \in 1..Len(list) |-> IF list[i].id = targetId THEN updater[list[i]] ELSE list[i]]

\* The updater of handleStop with the transcript lines joined by a space.
commitUpdater_Space(meeting, finalTranscript, now) ==
    [meeting EXCEPT !.transcript = IF meeting.transcript # <<>>
                                   THEN meeting.transcript \o <<Space>> \o finalTranscript
                                   ELSE finalTranscript,
                    !.updatedAt = now]

\* The updater handleStop passes to updateActiveMeeting.
commitUpdater(meeting, finalTranscript, now) ==
    [meeting EXCEPT !.transcript = IF meeting.transcript # <<>>
                                   THEN meeting.transcript \o <<Newline>> \o finalTranscript
                                   ELSE finalTranscript,
                    !.updatedAt = now]

\* The final transcripts handleStop commits: a batch text, a streamed text.
FinalTranscripts == {<<AudioText(1)>>, <<ChunkText(1, 0), Space, ChunkText(1, 1)>>}

\* load_meetings resolved: an empty store gets a fresh meeting.
LoadMeetings ==
    /\ ~loaded
    /\ loaded' = TRUE
    /\ \E data \in StoredData :
         IF data = <<>>
         THEN /\ created < MaxCreated
              /\ meetings' = <<createMeeting(0)>>
              /\ activeMeetingId' = randomUUID
              /\ activeMeetingRef' = randomUUID
              /\ created' = created + 1
         ELSE /\ meetings' = data
              /\ activeMeetingId' = data[1].id
              /\ activeMeetingRef' = data[1].id
              /\ created' = created
    /\ UNCHANGED <<recVars, hostVars, session, returns, pureVars, shortcut, streamVars, commitLog>>

\* A click on a meeting of the list.
SelectMeeting(i) ==
    /\ i \in 1..Len(meetings)
    /\ activeMeetingId' = meetings[i].id
    /\ activeMeetingRef' = meetings[i].id
    /\ UNCHANGED <<recVars, hostVars, session, returns, pureVars, shortcut, streamVars,
                   meetings, created, loaded, commitLog>>

\* addMeeting
AddMeeting ==
    /\ created < MaxCreated
    /\ \E now \in Times :
         /\ meetings' = <<createMeeting(now)>> \o meetings
         /\ activeMeetingId' = randomUUID
         /\ activeMeetingRef' = randomUUID
    /\ created' = created + 1
    /\ UNCHANGED <<recVars, hostVars, session, returns, pureVars, shortcut, streamVars, loaded, commitLog>>

\* The end of a handleStop call: the final transcript goes to the meetings.
CommitTranscript ==
    /\ Len(commitLog) < MaxCommits
    /\ \E finalTranscript \in FinalTranscripts : \E now \in Times :
         /\ meetings' = updateActiveMeeting(meetings,
                             [m \in Listed |-> commitUpdater(m, finalTranscript, now)])
         /\ commitLog' = Append(commitLog, finalTranscript)
    /\ UNCHANGED <<recVars, hostVars, session, returns, pureVars, shortcut, streamVars, activeMeetingId,
                   activeMeetingRef, created, loaded>>

MeetingNext ==
    \/ LoadMeetings
    \/ \E i \in 1..(MaxLoaded + MaxCreated) : SelectMeeting(i)
    \/ AddMeeting
    \/ CommitTranscript

MeetingSpec == Init /\ [][MeetingNext]_vars

\* ------------------------------------------------ handleStop runs to its end
\* One recording at a time, the backend's events left out. What the event
\* loop guarantees: a queued MediaRecorder task runs, the 50 ms timer of
\* waitForStreamingIdle fires and the clock advances, and a promise handleStop
\* awaits settles. Nothing is assumed of the chunk timer callbacks: a cycle
\* in flight may never finish.
StopCapture(r) ==
    /\ Delivered < MaxStopAudio
    /\ Capture(r)

StopNext ==
    \/ \E r \in Recs : LiveStart(r)
    \/ \E r \in Recs : StartRecorderSettled(r)
    \/ \E r \in Recs : StartSessionSettled(r)
    \/ \E p \in StopIds : Stop(p)
    \/ \E r \in Recs : StopCapture(r)
    \/ \E iv \in Recs : Tick(iv)
    \/ StreamTask
    \/ FullTask
    \/ \E t \in TickIds : TickEncodeSettled(t)
    \/ \E t \in TickIds : TickInvokeSettled(t)
    \/ \E p \in StopIds : StopWaitPoll(p)
    \/ \E p \in StopIds : StopFinalEncodeSettled(p)
    \/ \E p \in StopIds : StopFinalInvokeSettled(p)
    \/ \E p \in StopIds : StopEndSettled(p)
    \/ \E p \in StopIds : StopEndRejected(p)
    \/ \E p \in StopIds : StopBatchEncodeSettled(p)
    \/ \E p \in StopIds : StopBatchInvokeSettled(p)

StopFairness ==
    /\ WF_vars(StreamTask)
    /\ WF_vars(FullTask)
    /\ \A p \in StopIds :
          /\ WF_vars(StopWaitPoll(p))
          /\ WF_vars(StopFinalEncodeSettled(p))
          /\ WF_vars(StopFinalInvokeSettled(p))
          /\ WF_vars(StopEndSettled(p))
          /\ WF_vars(StopBatchEncodeSettled(p))
          /\ WF_vars(StopBatchInvokeSettled(p))

StopSpec == Init /\ [][StopNext]_vars /\ StopFairness

\* ------------------------------------------ the streaming session on its own
\* A client drives one StreamingSession through its interface; the backend
\* delivers the results of the dispatched chunks in any order.

\* create
create(ss) == [ss EXCEPT !.state = "Active", !.nextChunkIndex = 0]

\* dispatch with pendingCount left as it is.
dispatch_NotCounted(ss) ==
    [ss EXCEPT !.dispatched = @ \cup {ss.nextChunkIndex},
               !.nextChunkIndex = @ + 1]

\* dispatch: the chunk gets the next index and counts as pending.
dispatch(ss) ==
    [ss EXCEPT !.dispatched = @ \cup {ss.nextChunkIndex},
               !.nextChunkIndex = @ + 1,
               !.pendingCount = @ + 1]

\* onResult for chunk i, with text (good) or with an error; a result that
\* comes after the session has ended is discarded.
onResult(ss, i, good) ==
    IF ss.state = "Ended" THEN ss
    ELSE [ss EXCEPT !.pendingCount = @ - 1,
                    !.ok = IF good THEN @ \cup {i} ELSE @,
                    !.failed = IF good THEN @ ELSE @ \cup {i}]

\* TranscriptMerger.merge of the successful results with indices in S.
RECURSIVE mergeResults(_)
mergeResults(S) ==
    IF S = {} THEN <<>>
    ELSE LET i == CHOOSE x \in S : \A y \in S : x <= y
             rest == mergeResults(S \ {i})
         IN <<ChunkText(1, i)>> \o (IF rest = <<>> THEN <<>> ELSE <<Space>> \o rest)

\* end is called: an active session starts ending.
endCall(ss) ==
    [ss EXCEPT !.state = IF @ = "Active" THEN "Ending" ELSE @,
               !.waiting = @ + 1]

\* The wait of end for pendingCount = 0 is over: the session has ended.
endWaitOver(ss) ==
    [ss EXCEPT !.state = "Ended", !.entered = @ + 1, !.merged = mergeResults(ss.ok)]

SessionCreate ==
    /\ session.state = "None"
    /\ session' = create(session)
    /\ UNCHANGED <<recVars, hostVars, returns, pureVars, shortcut, streamVars, meetingVars>>

SessionDispatch ==
    /\ session.state = "Active"
    /\ session.nextChunkIndex < MaxDispatch
    /\ session' = dispatch(session)
    /\ UNCHANGED <<recVars, hostVars, returns, pureVars, shortcut, streamVars, meetingVars>>

\* The backend call for chunk i completes.
SessionResult(i) ==
    /\ i \in session.dispatched \ (session.ok \cup session.failed)
    /\ \E good \in BOOLEAN : session' = onResult(session, i, good)
    /\ UNCHANGED <<recVars, hostVars, returns, pureVars, shortcut, streamVars, meetingVars>>

SessionEndCall ==
    /\ session.state # "None"
    /\ Len(returns) + session.waiting < MaxEndCalls
    /\ session' = endCall(session)
    /\ UNCHANGED <<recVars, hostVars, returns, pureVars, shortcut, streamVars, meetingVars>>

\* The bound of end's wait is reached while chunks are pending.
SessionWaitExpired ==
    /\ session.state = "Ending"
    /\ session.pendingCount # 0
    /\ ~session.expired
    /\ session' = [session EXCEPT !.expired = TRUE]
    /\ UNCHANGED <<recVars, hostVars, returns, pureVars, shortcut, streamVars, meetingVars>>

SessionEnded ==
    /\ session.state = "Ending"
    /\ session.pendingCount = 0 \/ session.expired
    /\ session' = endWaitOver(session)
    /\ UNCHANGED <<recVars, hostVars, returns, pureVars, shortcut, streamVars, meetingVars>>

\* An end call returns the merged text of the ended session.
SessionEndReturn ==
    /\ session.state = "Ended"
    /\ session.waiting > 0
    /\ session' = [session EXCEPT !.waiting = @ - 1]
    /\ returns' = Append(returns, session.merged)
    /\ UNCHANGED <<recVars, hostVars, pureVars, shortcut, streamVars, meetingVars>>

SessionNext ==
    \/ SessionCreate
    \/ SessionDispatch
    \/ \E i \in 0..(MaxDispatch - 1) : SessionResult(i)
    \/ SessionEndCall
    \/ SessionWaitExpired
    \/ SessionEnded
    \/ SessionEndReturn

SessionSpec == Init /\ [][SessionNext]_vars

\* The texts of the chunks of one session are spelled out word by word, and
\* their transcription-chunk events reach the listener in chunk index order.
Vocabulary == {Word(w) : w \in 1..MaxVocabulary}

\* The texts of at most n words, the words separated by one " ".
RECURSIVE TextsUpTo(_)
TextsUpTo(n) ==
    IF n = 0 THEN {<<>>}
    ELSE TextsUpTo(n - 1)
         \cup {<<w>> : w \in Vocabulary}
         \cup {t \o <<Space, w>> : t \in TextsUpTo(n - 1) \ {<<>>}, w \in Vocabulary}

Texts == TextsUpTo(MaxWords)

SinkInit ==
    /\ AppInit
    /\ streamingEnabled
    /\ \E n \in 1..MaxResults : results \in [1..n -> Texts]
    /\ TimerIdle
    /\ EncoderIdle
    /\ MeetingIdle

SinkEvent(k) ==
    /\ k \in 1..Len(results)
    /\ seen = 1..(k - 1)
    /\ Apply([listener(St, results[k]) EXCEPT !.seen = @ \cup {k}])

SinkNext == \E k \in 1..MaxResults : SinkEvent(k)

SinkSpec == SinkInit /\ [][SinkNext]_vars

\* ------------------------------------------------------------------ claims
\* The calls of one kind in a call log, in order.
CallsOf(log, op) == SelectSeq(log, LAMBDA e : e.op = op)

RECURSIVE Blobs(_)
Blobs(log) == IF log = <<>> THEN <<>> ELSE Head(log).blob \o Blobs(Tail(log))

\* C7: the first getChunk call on a handle returns null and no audio the mixer
\* delivered before that call is in any segment handed out; every later
\* getChunk call that meets a recording stream recorder with no cut pending
\* starts a cut (the warm-up does not return null a second time).
C7_WarmupOnce ==
    LET g == CallsOf(callLog[1], "getChunk") IN
    /\ Len(g) > 0 => g[1].ret = "null"
    /\ \A i \in 1..Len(cutLog[1]) : \A k \in 1..Len(cutLog[1][i].blob) :
           Len(g) > 0 /\ cutLog[1][i].blob[k] > g[1].clock
    /\ \A i \in 2..Len(g) :
           g[i].sr = "recording" /\ ~g[i].pending => g[i].ret = "promise"

\* A second getChunk call started a cut that resolved with audio, although
\* audio had been delivered before the warm-up call.
C7_Witness ==
    LET g == CallsOf(callLog[1], "getChunk") IN
    /\ Len(g) >= 2 /\ g[1].clock >= 1 /\ g[2].ret = "promise"
    /\ Len(cutLog[1]) >= 1 /\ cutLog[1][1].blob # Null

\* C8 as amended: the segments handed out so far, followed by what the stream
\* recorder holds, are exactly the audio delivered to it, in recording order;
\* so each cut returns the audio delivered since the previous cut, which is
\* null when none was delivered.
C8_Gapless ==
    Blobs(cutLog[1]) \o Flatten(rec[1].streamParts) \o rec[1].recBuf
        = rec[1].delivered

\* Two cuts, a regular one and the final one, returned one unit each.
C8_Witness ==
    /\ Len(cutLog[1]) = 2
    /\ cutLog[1][1] = [op |-> "getChunk", blob |-> <<1>>]
    /\ cutLog[1][2] = [op |-> "getFinalChunk", blob |-> <<2>>]

\* C8 as stated: in addition, no cut started by getChunk returns null.
C8_Original ==
    /\ C8_Gapless
    /\ \A i \in 1..Len(cutLog[1]) :
           cutLog[1][i].op = "getChunk" => cutLog[1][i].blob # Null

\* C9: a getChunk or getFinalChunk call that meets a cut in progress (a
\* resolver pending, or the stream recorder inactive) returns null, queues
\* nothing and leaves the recorder as it was; and a cut resolves for the call
\* that started it, with the audio gathered up to then.
C9_SingleFlight ==
    [][ /\ ( /\ Len(callLog'[1]) = Len(callLog[1]) + 1
             /\ (rec[1].resolver # NoWaiter \/ rec[1].sr = "inactive") )
           => /\ callLog'[1][Len(callLog'[1])].ret = "null"
              /\ tasks' = tasks
              /\ rec'[1] = rec[1]
        /\ Len(cutLog'[1]) = Len(cutLog[1]) + 1
           => /\ cutLog'[1][Len(cutLog'[1])].op = rec[1].resolver[1]
              /\ cutLog'[1][Len(cutLog'[1])].blob = rec[1].recBuf ]_vars

\* A call was rejected while a cut was pending, and that cut then resolved
\* with its audio.
C9_Witness ==
    /\ \E i \in 1..Len(callLog[1]) :
           callLog[1][i].pending /\ callLog[1][i].ret = "null"
    /\ Len(cutLog[1]) >= 1 /\ cutLog[1][1].blob # Null

\* -- the application
Chunks == {i \in 1..Len(invokes) : invokes[i].cmd = "transcribe_chunk"}
Units(b) == {b[k] : k \in 1..Len(b)}
TickInFlight(t) == ticks[t].pc # "free"
FlushInFlight(p) == stops[p].pc \in {"finalCut", "finalEncode", "finalInvoke"}

\* C1: when handleStop was called while a regular cut was pending, all audio
\* the stream recorder gathered after the last completed regular cut has been
\* passed to transcribe_chunk by the time end_streaming_session is invoked.
C1_TailDispatched ==
    \A p \in StopIds : \A i \in 1..Len(invokes) :
        ( /\ stops[p].pc = "ending" /\ stops[p].midCut
          /\ invokes[i].cmd = "end_streaming_session"
          /\ invokes[i].sess = stops[p].sess /\ invokes[i].rec = stops[p].rec )
        => \A k \in (stops[p].cutMark + 1)..Len(rec[stops[p].rec].delivered) :
               \E j \in Chunks :
                   /\ j < i
                   /\ invokes[j].sess = stops[p].sess
                   /\ invokes[j].rec = stops[p].rec
                   /\ rec[stops[p].rec].delivered[k] \in Units(invokes[j].audio)

\* C2: the final cut is not started while a timer callback of the session is
\* in flight, unless the wait for it timed out.
C2_FinalCutWaits ==
    [][ \A p \in StopIds :
            (stops[p].pc # "finalCut" /\ stops'[p].pc = "finalCut")
            => \/ stops'[p].timedOut
               \/ ~\E t \in TickIds : TickInFlight(t) /\ ticks[t].sess = stops'[p].sess ]_vars

\* C3: per session, at most one cut+encode+dispatch cycle is in flight,
\* counting timer callbacks and the final flush of handleStop.
C3_OneCycle ==
    \A s \in Recs :
        Cardinality({t \in TickIds : TickInFlight(t) /\ ticks[t].sess = s})
        + Cardinality({p \in StopIds : FlushInFlight(p) /\ stops[p].sess = s}) <= 1

\* C4: of two dispatched segments of one session, the one cut earlier is
\* passed to transcribe_chunk earlier and with the smaller chunkIndex.
C4_DispatchInCutOrder ==
    \A i \in Chunks : \A j \in Chunks :
        ( /\ invokes[i].sess = invokes[j].sess
          /\ invokes[i].rec = invokes[j].rec
          /\ \A a \in Units(invokes[i].audio) : \A b \in Units(invokes[j].audio) : a < b )
        => i < j /\ invokes[i].idx < invokes[j].idx

\* C5: within one session the chunkIndex values passed to transcribe_chunk
\* are strictly increasing in dispatch order.
C5_IndexIncreasing ==
    \A i \in Chunks : \A j \in Chunks :
        (i < j /\ invokes[i].sess = invokes[j].sess)
        => invokes[i].idx < invokes[j].idx

\* C6: the first chunk dispatched to a session carries chunkIndex 0 (stated
\* for runs in which no two handleStart calls overlapped).
C6_FirstIndexZero ==
    \A i \in Chunks :
        (~startsOverlapped /\ ~\E j \in Chunks : j < i /\ invokes[j].sess = invokes[i].sess)
        => invokes[i].idx = 0

\* C10: no timer callback starts a cycle while a callback of the same timer is
\* still in flight (stated for runs in which no two handleStart calls
\* overlapped).
C10_TickSkipped ==
    [][ \A t \in TickIds :
            (~startsOverlapped /\ ~TickInFlight(t) /\ ticks'[t].pc # "free")
            => ~\E u \in TickIds : TickInFlight(u) /\ ticks[u].sess = ticks'[t].sess ]_vars

\* C11: a cut chunk is not given up after a single failed decode: when a
\* blobToWavBase64 call settles, the chunk is either dispatched or still held
\* for the second attempt (every decode the model settles is a first attempt,
\* the code makes no other).
C11_DecodeRetried ==
    [][ /\ \A t \in TickIds :
               ticks[t].pc = "encode" => ticks'[t].pc \in {"encode", "invoke"}
        /\ \A p \in StopIds :
               stops[p].pc = "finalEncode"
               => stops'[p].pc \in {"finalEncode", "finalInvoke"} ]_vars

\* C12: the step that ends a timer callback's cycle (null chunk, failed
\* encode, transcribe_chunk settled either way) clears the busy flag and
\* touches nothing else of the recording: the timer stays armed, the session
\* and the recorder stay as they were, no command is invoked.
C12_TickFailureIsolated ==
    [][ \A t \in TickIds :
            (TickInFlight(t) /\ ticks'[t].pc = "free")
            => LET r == ticks[t].rec IN
               /\ streamingBusyRef' = FALSE
               /\ intervals' = intervals
               /\ streamingIntervalRef' = streamingIntervalRef
               /\ streamingSessionId' = streamingSessionId
               /\ recorderRef' = recorderRef
               /\ isRecording' = isRecording
               /\ rec'[r].fullState = rec[r].fullState
               /\ rec'[r].live = rec[r].live
               /\ rec'[r].streamActive = rec[r].streamActive
               /\ invokes' = invokes ]_vars

\* The chunk with unit 1 was cut and given up (its encode failed), and a later
\* tick of the same session dispatched the chunk with unit 2; no stop was made.
C12_Witness ==
    /\ rec[1].delivered = <<1, 2>>
    /\ \A p \in StopIds : stops[p].pc = "free"
    /\ \A t \in TickIds : ticks[t].chunk # <<1>>
    /\ ~\E j \in Chunks : 1 \in Units(invokes[j].audio)
    /\ \E i \in Chunks : invokes[i].audio = <<2>> /\ invokes[i].sess = 1
    /\ streamingIntervalRef = 1 /\ recorderRef = 1 /\ ~streamingBusyRef

\* C13: when system audio was requested, the microphone was acquired and no
\* system audio was (getDisplayMedia rejected, or gave a stream without
\* audio), startRecorder still returns a handle, with systemAudioActive false;
\* and a handle reports systemAudioActive only when system audio was requested
\* and acquired.
C13_SystemAudioOptional ==
    LET h == rec[1] IN
    /\ ( /\ h.created \/ h.openError # "none"
         /\ h.requested /\ h.openError # "mic" /\ h.display # "audio" )
       => h.created /\ ~h.systemAudioActive
    /\ (h.created /\ h.systemAudioActive) => (h.requested /\ h.display = "audio")

\* C14: a handleStart call that ends without a recorder handle ended because
\* the microphone was not acquired, and it leaves the application not
\* recording with nothing created (no handle stored, no session, no chunk
\* timer, no command invoked); a start_streaming_session that fails is not
\* fatal: the recording goes on.
C14_MicOnlyFatal ==
    [][ \A r \in Recs :
            /\ (starts[r] = "acquire" /\ starts'[r] = "done" /\ ~rec'[r].created)
               => /\ rec'[r].openError = "mic"
                  /\ ~isRecording'
                  /\ recorderRef' = recorderRef
                  /\ streamingSessionId' = streamingSessionId
                  /\ intervals' = intervals
                  /\ invokes' = invokes
            /\ (starts[r] = "session" /\ starts'[r] = "done")
               => /\ isRecording' = isRecording
                  /\ recorderRef' = recorderRef
                  /\ rec'[r] = rec[r] ]_vars

\* A stop request was carried out, the application shows "not recording" and
\* no handler or recorder task is pending.
AllStopped ==
    /\ ~isRecording
    /\ \E p \in StopIds : stops[p].pc = "done"
    /\ tasks = <<>>
    /\ \A r \in Recs : starts[r] \in {"idle", "done"}
    /\ \A p \in StopIds : stops[p].pc \in {"free", "done"}

\* C15: the tracks and audio context of a recording that was started are
\* never torn down twice, and once the application has stopped recording they
\* have been torn down once.
C15_TornDownOnce ==
    \A r \in Recs :
        rec[r].created
        => /\ rec[r].teardowns <= 1
           /\ AllStopped => (rec[r].teardowns = 1 /\ ~rec[r].live)

\* The client's stop calls that were made / that resolved.
StopCalled(k) == \E i \in 1..Len(stopLog[1]) : stopLog[1][i] = [ev |-> "call", id |-> k]
StopResolved(k) ==
    \E i \in 1..Len(stopLog[1]) : stopLog[1][i] = [ev |-> "resolved", id |-> k]

\* C16: once a first stop() has torn the stream down it stays down and is not
\* torn down again, whatever further stop() calls are made; and a second call
\* does not keep the first from completing: when the recorder's stop task has
\* run, the first call has resolved.
C16_StopIdempotent ==
    /\ rec[1].teardowns <= 1
    /\ rec[1].teardowns = 1 => ~rec[1].live
    /\ (StopCalled(1) /\ tasks = <<>>) => StopResolved(1)

\* The transcripts transcribe_audio can produce.
AudioTexts == {<<AudioText(r)>> : r \in Recs}

\* C17: once end_streaming_session has returned an empty merged transcript,
\* handleStop goes on to the batch transcription of the full recording: it
\* commits nothing but a transcribe_audio result. And a session no chunk was
\* dispatched to returns an empty merged transcript.
C17_BatchFallback ==
    \A p \in StopIds :
        /\ (stops[p].ended = "returned" /\ stops[p].merged = <<>>)
              => \/ stops[p].pc \in {"batchEncode", "batchInvoke"}
                 \/ stops[p].pc = "done" /\ ~stops[p].committed
                 \/ stops[p].pc = "done" /\ stops[p].final \in AudioTexts
        /\ (stops[p].ended = "returned" /\ stops[p].pc # "done"
                /\ ChunksOf(stops[p].sess) = {})
              => stops[p].merged = <<>>

\* The transcribe_audio invocations made so far.
AudioCount == Len(SelectSeq(invokes, LAMBDA v : v.cmd = "transcribe_audio"))

\* The step in which a handleStop call a (b after the step) passes the
\* shouldUseStreaming test.
Deciding(a, b) ==
    /\ a.pc \in {"stopping", "waitIdle", "finalCut", "finalEncode", "finalInvoke", "ending"}
    /\ b.pc \in {"done", "batchEncode"}

InIndexOrder(text) ==
    \A j, k \in 1..Len(text) :
        (j < k /\ text[j][1] = "chunk" /\ text[k][1] = "chunk" /\ text[j][2] = text[k][2])
            => text[j][3] <= text[k][3]

\* C19: the transcript a handleStop call commits has the chunk texts in
\* chunk index order, so that it is the same for every order in which the
\* transcription-chunk events of these chunks arrived.
C19_ArrivalOrderFree ==
    \A p \in StopIds : stops[p].committed => InIndexOrder(stops[p].final)

\* end_streaming_session has returned for session sess.
EndReturned(sess) ==
    \E p \in StopIds : stops[p].ended = "returned" /\ stops[p].endedSess = sess

\* C20: a transcription-chunk event that arrives after end_streaming_session
\* has returned for its session changes no handleStop call's committed
\* transcript, and it does not change the live transcript of a recording that
\* is under way.
C20_LateResultDiscarded ==
    [][ \A i \in 1..Len(invokes) :
            (i \notin seen /\ i \in seen' /\ EndReturned(invokes[i].sess))
                => /\ stops' = stops
                   /\ isRecording => liveTranscript' = liveTranscript
      ]_vars

\* C21: whatever the order in which the transcription-chunk events arrive,
\* the partial text (the live transcript) and the merged text that
\* end_streaming_session returned hold the chunk texts of a session in
\* ascending chunk index order.
C21_AssembledInIndexOrder ==
    /\ InIndexOrder(liveTranscript)
    /\ \A p \in StopIds : InIndexOrder(stops[p].merged)

\* The words of a text, without its separators.
Words(text) == SelectSeq(text, LAMBDA x : x # Space)

\* The length of the longest suffix of the words a that is a prefix of the
\* words b.
Overlap(a, b) ==
    LET m == IF Len(a) < Len(b) THEN Len(a) ELSE Len(b)
        fits(n) == SubSeq(a, Len(a) - n + 1, Len(a)) = SubSeq(b, 1, n)
    IN CHOOSE n \in 0..m : fits(n) /\ \A k \in 0..m : fits(k) => k <= n

\* The words of segments 1..n of texts, each segment after the first without
\* the prefix that repeats the end of the text before it.
RECURSIVE TrimmedWords(_, _)
TrimmedWords(texts, n) ==
    IF n = 0 THEN <<>>
    ELSE LET before == TrimmedWords(texts, n - 1)
             next == Words(texts[n])
         IN before \o SubSeq(next, Overlap(before, next) + 1, Len(next))

\* C22: when the texts of segments 1..n have been appended, the assembled
\* text holds the words of segment 1 followed, for each later segment, by its
\* words without the longest prefix that repeats the end of what precedes it.
C22_OverlapTrimmed ==
    Words(liveTranscript) = TrimmedWords(results, Cardinality(seen))

\* C23: the assembled text does not begin with a separator and nowhere has
\* two separators in a row.
C23_SingleSeparator ==
    /\ liveTranscript # <<>> => Head(liveTranscript) # Space
    /\ \A k \in 1..(Len(liveTranscript) - 1) :
           ~(liveTranscript[k] = Space /\ liveTranscript[k + 1] = Space)

\* C24: the arrival of a transcription-error event leaves the live
\* transcript, the chunk index counter, the chunk timers, the session id, the
\* recording state, the recorders and every handler in flight as they were,
\* and invokes nothing.
C24_ErrorEventIsolated ==
    [][ errorLog' # errorLog
            => /\ liveTranscript' = liveTranscript
               /\ streamingChunkIndexRef' = streamingChunkIndexRef
               /\ intervals' = intervals
               /\ streamingIntervalRef' = streamingIntervalRef
               /\ streamingSessionId' = streamingSessionId
               /\ isRecording' = isRecording
               /\ recorderRef' = recorderRef
               /\ streamingBusyRef' = streamingBusyRef
               /\ pendingStreamingChunkRef' = pendingStreamingChunkRef
               /\ rec' = rec
               /\ tasks' = tasks
               /\ starts' = starts
               /\ stops' = stops
               /\ ticks' = ticks
               /\ invokes' = invokes
      ]_vars

\* Chunk i of a session failed, a later chunk j of the session was still
\* dispatched, and the merged transcript committed at stop is the text of j.
C24_Witness ==
    \E i, j \in 1..Len(invokes) : \E p \in StopIds :
        /\ i \in errorLog
        /\ j \in ChunksOf(invokes[i].sess)
        /\ invokes[i].idx < invokes[j].idx
        /\ stops[p].committed
        /\ stops[p].ended = "returned"
        /\ stops[p].endedSess = invokes[i].sess
        /\ stops[p].final = <<ChunkText(invokes[j].sess, invokes[j].idx)>>

\* C25: the session's state only moves None -> Active -> Ending -> Ended; it
\* enters Ended at most once, and only when end has been called and either no
\* chunk is pending or the bounded wait has expired; pendingCount is never
\* negative and is the number of dispatched chunks without a result.
C25_SessionLifecycle ==
    [][ LET a == session
            b == session'
        IN  /\ a.state # b.state
                  => <<a.state, b.state>> \in {<<"None", "Active">>, <<"Active", "Ending">>,
                                               <<"Ending", "Ended">>}
            /\ (b.state = "Ended" /\ a.state # "Ended")
                  => a.waiting > 0 /\ (a.pendingCount = 0 \/ a.expired)
            /\ b.entered <= 1
            /\ b.pendingCount >= 0
            /\ b.pendingCount = Cardinality(b.dispatched \ (b.ok \cup b.failed))
      ]_vars

\* A session that ended after one chunk succeeded and one failed, and whose
\* end was called twice.
C25_Witness ==
    /\ session.state = "Ended"
    /\ session.entered = 1
    /\ session.ok # {}
    /\ session.failed # {}
    /\ Len(returns) = 2

\* The end_streaming_session invocations made so far.
EndCalls == {i \in 1..Len(invokes) : invokes[i].cmd = "end_streaming_session"}

Stopped(r) ==
    /\ rec[r].teardowns > 0
    /\ \A p \in StopIds : stops[p].rec # r

\* C27: once stop has completed for a recording, its rolling stream recorder
\* is not recording, gathers no new segment, and a getChunk on it returns
\* null.
C27_RollingRecorderStopped ==
    \A r \in Recs :
        Stopped(r) =>
            /\ rec[r].sr # "recording"
            /\ ~rec[r].gathering
            /\ getChunk(rec[r], ClientCut).ret = "null"

C29_IntervalAtLeastOneSecond ==
    chunkTimer.armed =>
        /\ chunkTimer.intervalMs =
              IF chunkDurationMs = Undefined THEN <<0, 5000>>
              ELSE IF chunkDurationMs[1] = 0 /\ chunkDurationMs[2] < 1000 THEN <<0, 1000>>
              ELSE chunkDurationMs
        /\ chunkTimer.period >= 1000

\* The little-endian number held by the k bytes of b after offset.
LittleEndian(b, offset, k) ==
    LET sum[i \in 0..k] ==
            IF i = 0 THEN 0 ELSE b[offset + k + 1 - i] + 256 * sum[i - 1]
    IN sum[k]

\* C30: for a buffer of n samples the encoder returns 44 + 2n bytes: RIFF,
\* the size 36 + 2n, WAVE, a fmt chunk of 16 bytes with format 1, 1 channel,
\* the sample rate, byte rate 2 * sample rate, block align 2 and 16 bits per
\* sample, then data and the size 2n, every field little-endian.
C30_WavHeaderExact ==
    wavBuffer # <<>> =>
        LET n == Len(buffer.samples) IN
        /\ Len(wavBuffer) = 44 + 2 * n
        /\ SubSeq(wavBuffer, 1, 4) = <<82, 73, 70, 70>>
        /\ LittleEndian(wavBuffer, 4, 4) = 36 + 2 * n
        /\ SubSeq(wavBuffer, 9, 12) = <<87, 65, 86, 69>>
        /\ SubSeq(wavBuffer, 13, 16) = <<102, 109, 116, 32>>
        /\ LittleEndian(wavBuffer, 16, 4) = 16
        /\ LittleEndian(wavBuffer, 20, 2) = 1
        /\ LittleEndian(wavBuffer, 22, 2) = 1
        /\ LittleEndian(wavBuffer, 24, 4) = buffer.sampleRate
        /\ LittleEndian(wavBuffer, 28, 4) = buffer.sampleRate * 2
        /\ LittleEndian(wavBuffer, 32, 2) = 2
        /\ LittleEndian(wavBuffer, 34, 2) = 16
        /\ SubSeq(wavBuffer, 37, 40) = <<100, 97, 116, 97>>
        /\ LittleEndian(wavBuffer, 40, 4) = 2 * n
        /\ \A i \in 1..Len(wavBuffer) : wavBuffer[i] \in 0..255

\* A buffer of several samples at 16 kHz has been encoded.
C30_Witness ==
    /\ wavBuffer # <<>>
    /\ buffer.sampleRate = 16000
    /\ Len(buffer.samples) = MaxSamples

\* C31: the step in which handleStop commits a final transcript changes
\* only the meeting that is current: its transcript becomes the text alone
\* when it was empty and the old text, a newline and the text otherwise; its
\* other fields but updatedAt, the other meetings and their order stay.
C31_TranscriptAppended ==
    [][Len(commitLog') > Len(commitLog) =>
        LET text == commitLog'[Len(commitLog')] IN
        /\ Len(meetings') = Len(meetings)
        /\ \A i \in 1..Len(meetings) :
             IF meetings[i].id = activeMeetingId
             THEN /\ meetings'[i].transcript =
                        IF meetings[i].transcript = <<>> THEN text
                        ELSE meetings[i].transcript \o <<Newline>> \o text
                  /\ [meetings'[i] EXCEPT !.transcript = <<>>, !.updatedAt = 0]
                        = [meetings[i] EXCEPT !.transcript = <<>>, !.updatedAt = 0]
             ELSE meetings'[i] = meetings[i]
      ]_vars

\* Two transcripts were committed to a meeting that is not the first of
\* several.
C31_Witness ==
    /\ Len(commitLog) = 2
    /\ \E i \in 2..Len(meetings) :
         /\ meetings[i].id = activeMeetingId
         /\ meetings[i].transcript = commitLog[1] \o <<Newline>> \o commitLog[2]

\* C32: after a device error on a recorder its stream recorder is not
\* restarted, gathers nothing, and a getChunk on it cuts nothing.
C32_NoCutAfterDeviceError ==
    \A r \in Recs :
        rec[r].errored =>
            /\ rec[r].sr # "recording"
            /\ ~rec[r].gathering
            /\ getChunk(rec[r], ClientCut).ret = "null"

\* C33: no transcribe_chunk is invoked for a session after
\* end_streaming_session was invoked for it.
C33_NoChunkAfterEnd ==
    \A i \in EndCalls : \A j \in 1..Len(invokes) :
        (invokes[j].cmd = "transcribe_chunk" /\ invokes[j].sess = invokes[i].sess) => j < i

\* The recorders whose tracks and audio context are open, and the sessions
\* that were started, are known to the host and were not ended.
LiveRecorders == {r \in Recs : rec[r].created /\ rec[r].live}
OpenSessions ==
    {r \in Recs : /\ r \in intervals \/ streamingSessionId = r
                  /\ \A i \in EndCalls : invokes[i].sess # r}

\* C34: at most one recorder, one streaming session and one chunk timer are
\* alive at any time, and once the application has stopped none is.
C34_OneRecordingAtATime ==
    /\ Cardinality(LiveRecorders) <= 1
    /\ Cardinality(OpenSessions) <= 1
    /\ Cardinality(intervals) <= 1
    /\ AllStopped => (LiveRecorders = {} /\ OpenSessions = {} /\ intervals = {})

\* ------------------------------------------------------- the global hotkey
\* The effect that registers Ctrl+Shift+Space has isRecording as its only
\* dependency: it runs again, and registers a callback closing over the
\* handlers of the current render, only after a render in which isRecording
\* changed. The render is taken together with the handler step that set the
\* state, so the closure holds streamingSessionId as it was before that step
\* went on.
registerShortcut(s) ==
    IF s.isRecording # isRecording
    THEN [isRecording |-> s.isRecording, streamingSessionId |-> s.streamingSessionId]
    ELSE shortcut

ApplyRendered(s) == ApplyHost(s) /\ shortcut' = registerShortcut(s)

RenderedStartRecorderSettled(r) ==
    /\ starts[r] = "acquire"
    /\ \E micOk \in BOOLEAN :
         \E display \in (IF includeSystemAudio THEN DisplayOutcomes ELSE {"none"}) :
             ApplyRendered(handleStartRecorder(St, r, micOk, display))

\* The Stop button: handleStop of the latest render.
ButtonStop(p) ==
    /\ isRecording
    /\ recorderRef # 0
    /\ stops[p].pc = "free"
    /\ \A q \in StopIds : q < p => stops[q].pc # "free"
    /\ ApplyRendered(handleStop(St, p, streamingSessionId))

\* The hotkey while the registered callback holds isRecording false: the
\* handleStart of that render.
HotkeyStart(r) ==
    /\ ~shortcut.isRecording
    /\ LiveStart(r)

\* The hotkey while the registered callback holds isRecording true: the
\* handleStop of that render, which reads that render's streamingSessionId.
HotkeyStop(p) ==
    /\ shortcut.isRecording
    /\ recorderRef # 0
    /\ stops[p].pc = "free"
    /\ \A q \in StopIds : q < p => stops[q].pc # "free"
    /\ ApplyRendered(handleStop(St, p, shortcut.streamingSessionId))

\* The Start button runs the same handleStart as HotkeyStart does (the
\* registered callback's isRecording is the rendered one whenever a step
\* begins), so it is not listed apart.
HotkeyNext ==
    \/ \E r \in Recs : HotkeyStart(r)
    \/ \E r \in Recs : RenderedStartRecorderSettled(r)
    \/ \E r \in Recs : StartSessionSettled(r)
    \/ \E p \in StopIds : ButtonStop(p)
    \/ \E p \in StopIds : HotkeyStop(p)
    \/ \E r \in Recs : StopCapture(r)
    \/ \E iv \in Recs : Tick(iv)
    \/ StreamTask
    \/ FullTask
    \/ \E t \in TickIds : TickEncodeSettled(t)
    \/ \E t \in TickIds : TickInvokeSettled(t)
    \/ \E p \in StopIds : StopWaitPoll(p)
    \/ \E p \in StopIds : StopFinalEncodeSettled(p)
    \/ \E p \in StopIds : StopFinalInvokeSettled(p)
    \/ \E p \in StopIds : StopEndSettled(p)
    \/ \E p \in StopIds : StopEndRejected(p)
    \/ \E p \in StopIds : StopBatchEncodeSettled(p)
    \/ \E p \in StopIds : StopBatchInvokeSettled(p)

HotkeySpec == Init /\ [][HotkeyNext]_vars

\* C35: a stop, by the button or by the hotkey, that is requested while the
\* streaming session of the current recording is started works on that
\* session id, so that it flushes the final chunk into it and ends it.
C35_HotkeyStopEndsSession ==
    [][\A p \in StopIds :
          (/\ stops[p].pc = "free"
           /\ stops'[p].pc # "free"
           /\ recorderRef # 0
           /\ streamingSessionId = recorderRef)
          => stops'[p].sess = streamingSessionId]_vars

\* start_streaming_session was rejected for the recording in progress: while
\* recorderRef holds r and handleStart is through, streamingSessionId is r
\* exactly when the call resolved (under LiveSpec nothing else writes the
\* state before handleStop has stopped the recorder).
SessionStartFailed(r) ==
    /\ streamingEnabled
    /\ recorderRef = r
    /\ starts[r] = "done"
    /\ streamingSessionId # r

\* C36: while a recording whose start_streaming_session call failed goes on,
\* no chunk timer is armed and no transcribe_chunk was invoked with audio of
\* that recording.
C36_NoStreamingAfterFailedSessionStart ==
    \A r \in Recs :
        SessionStartFailed(r) =>
            /\ intervals = {}
            /\ \A i \in Chunks : invokes[i].rec # r

\* ------------------------------------------------------- text enhancement
MaxEnhance == 2
MaxDeltas == 2

Fields == {"notes", "summary", "transcript"}

\* What a delta event carries.
DeltaContents == {<<Word(2)>>}

\* String.prototype.slice with 0 <= start <= end.
slice(text, start, end) ==
    LET n == Len(text)
        a == IF start < n THEN start ELSE n
        b == IF end < n THEN end ELSE n
    IN SubSeq(text, a + 1, b)

\* activeMeeting: the meeting whose id is activeMeetingId, if any.
HasActiveMeeting == \E i \in 1..Len(meetings) : meetings[i].id = activeMeetingId
activeMeeting == meetings[CHOOSE i \in 1..Len(meetings) : meetings[i].id = activeMeetingId]

\* The updater the enhance listeners pass to updateActiveMeeting.
enhanceUpdater(meeting, context, text, now) ==
    [meeting EXCEPT ![context.field] = context.prefix \o text \o context.suffix,
                    !.updatedAt = now]

\* handleSelect: the selection of a text area of the active meeting.
Select ==
    /\ HasActiveMeeting
    /\ \E field \in Fields : \E start, end \in 0..Len(activeMeeting[field]) :
         /\ start <= end
         /\ enhancer' = [enhancer EXCEPT
                           !.selection = [field |-> field, start |-> start, end |-> end]]
    /\ UNCHANGED <<recVars, hostVars, session, returns, pureVars, shortcut, meetingVars,
                   summarizer>>

\* handleEnhanceSelection, from an enabled Enhance selection button, to the
\* end of its invoke; a rejected start_enhance_stream starts no stream.
EnhanceSelection ==
    /\ ~enhancer.isEnhancingSelection
    /\ enhancer.selection.field # "null"
    /\ HasActiveMeeting
    /\ enhancer.selection.start # enhancer.selection.end
    /\ Len(enhancer.streams) < MaxEnhance
    /\ LET selection == enhancer.selection
           source == activeMeeting[selection.field]
           snippet == trim(slice(source, selection.start, selection.end))
           selectionId == Len(enhancer.streams) + 1
           stream == [meetingId |-> activeMeeting.id, selectionId |-> selectionId,
                      text |-> <<>>, phase |-> "streaming"]
       IN /\ snippet # <<>>
          /\ \E ok \in BOOLEAN :
               enhancer' =
                   IF ok
                   THEN [enhancer EXCEPT
                           !.isEnhancingSelection = TRUE,
                           !.enhanceBufferRef = <<>>,
                           !.enhanceContextRef =
                               [meetingId |-> activeMeeting.id,
                                selectionId |-> selectionId,
                                field |-> selection.field,
                                prefix |-> slice(source, 0, selection.start),
                                suffix |-> slice(source, selection.end, Len(source))],
                           !.streams = Append(@, stream)]
                   ELSE [enhancer EXCEPT
                           !.isEnhancingSelection = FALSE,
                           !.enhanceBufferRef = <<>>,
                           !.enhanceContextRef = NoContext,
                           !.streams = Append(@, [stream EXCEPT !.phase = "rejected"])]
    /\ UNCHANGED <<recVars, hostVars, session, returns, pureVars, shortcut, meetingVars,
                   summarizer>>

\* The enhance listeners take an event only for the context in force.
enhanceAccepts(k) ==
    /\ enhancer.enhanceContextRef # NoContext
    /\ enhancer.streams[k].meetingId = enhancer.enhanceContextRef.meetingId
    /\ enhancer.streams[k].selectionId = enhancer.enhanceContextRef.selectionId

\* enhance-delta with an event of type "delta" from stream k.
EnhanceDelta(k) ==
    /\ k \in 1..Len(enhancer.streams)
    /\ enhancer.streams[k].phase = "streaming"
    /\ Len(enhancer.streams[k].text) < MaxDeltas
    /\ \E content \in DeltaContents : \E now \in Times :
         LET next == enhancer.enhanceBufferRef \o content IN
         IF enhanceAccepts(k)
         THEN /\ enhancer' = [enhancer EXCEPT !.streams[k].text = @ \o content,
                                              !.enhanceBufferRef = next]
              /\ meetings' = updateActiveMeeting(meetings,
                     [m \in Listed |-> enhanceUpdater(m, enhancer.enhanceContextRef, next, now)])
         ELSE /\ enhancer' = [enhancer EXCEPT !.streams[k].text = @ \o content]
              /\ meetings' = meetings
    /\ UNCHANGED <<recVars, hostVars, session, returns, pureVars, shortcut, summarizer,
                   activeMeetingId, activeMeetingRef, created, loaded, commitLog>>

\* enhance-delta with an event of type "final" from stream k: the event
\* carries the whole text.
EnhanceFinal(k) ==
    /\ k \in 1..Len(enhancer.streams)
    /\ enhancer.streams[k].phase = "streaming"
    /\ \E now \in Times :
         LET finalText == enhancer.streams[k].text IN
         IF enhanceAccepts(k)
         THEN /\ enhancer' = [enhancer EXCEPT !.streams[k].phase = "final",
                                              !.enhanceBufferRef = finalText]
              /\ meetings' = updateActiveMeeting(meetings,
                     [m \in Listed |-> enhanceUpdater(m, enhancer.enhanceContextRef, finalText, now)])
         ELSE /\ enhancer' = [enhancer EXCEPT !.streams[k].phase = "final"]
              /\ meetings' = meetings
    /\ UNCHANGED <<recVars, hostVars, session, returns, pureVars, shortcut, summarizer,
                   activeMeetingId, activeMeetingRef, created, loaded, commitLog>>

\* enhance-done from stream k, with the whole text or with no text.
EnhanceDone(k) ==
    /\ k \in 1..Len(enhancer.streams)
    /\ enhancer.streams[k].phase \in {"streaming", "final"}
    /\ \E withText \in BOOLEAN : \E now \in Times :
         LET finalText == IF withText THEN enhancer.streams[k].text
                          ELSE enhancer.enhanceBufferRef IN
         IF enhanceAccepts(k)
         THEN /\ enhancer' = [enhancer EXCEPT !.streams[k].phase = "done",
                                              !.isEnhancingSelection = FALSE,
                                              !.enhanceContextRef = NoContext]
              /\ meetings' = updateActiveMeeting(meetings,
                     [m \in Listed |-> enhanceUpdater(m, enhancer.enhanceContextRef, finalText, now)])
         ELSE /\ enhancer' = [enhancer EXCEPT !.streams[k].phase = "done"]
              /\ meetings' = meetings
    /\ UNCHANGED <<recVars, hostVars, session, returns, pureVars, shortcut, summarizer,
                   activeMeetingId, activeMeetingRef, created, loaded, commitLog>>

\* enhance-error from stream k.
EnhanceError(k) ==
    /\ k \in 1..Len(enhancer.streams)
    /\ enhancer.streams[k].phase \in {"streaming", "final"}
    /\ enhancer' = [enhancer EXCEPT !.streams[k].phase = "failed",
                                    !.isEnhancingSelection = FALSE,
                                    !.enhanceContextRef = NoContext]
    /\ UNCHANGED <<recVars, hostVars, session, returns, pureVars, shortcut, summarizer,
                   meetingVars>>

EnhanceNext ==
    \/ LoadMeetings
    \/ \E i \in 1..(MaxLoaded + MaxCreated) : SelectMeeting(i)
    \/ Select
    \/ EnhanceSelection
    \/ \E k \in 1..MaxEnhance : EnhanceDelta(k)
    \/ \E k \in 1..MaxEnhance : EnhanceFinal(k)
    \/ \E k \in 1..MaxEnhance : EnhanceDone(k)
    \/ \E k \in 1..MaxEnhance : EnhanceError(k)

\* The recorder configuration plays no part here: one is kept.
StreamInit == Init /\ streamingEnabled

EnhanceSpec == StreamInit /\ [][EnhanceNext]_vars

\* C37: an event of an enhancement changes no meeting but the one the
\* enhancement was started for, and of that meeting only the field that was
\* selected (and updatedAt).
C37_EnhanceWritesOwnMeeting ==
    [][\A k \in 1..Len(enhancer.streams) :
          (/\ Len(enhancer'.streams) = Len(enhancer.streams)
           /\ enhancer'.streams[k] # enhancer.streams[k])
          => \A i \in 1..Len(meetings) :
                meetings'[i] # meetings[i]
                => /\ meetings[i].id = enhancer.streams[k].meetingId
                   /\ \A f \in Fields \ {enhancer.enhanceContextRef.field} :
                          meetings'[i][f] = meetings[i][f]]_vars

\* ------------------------------------------------------ summary generation
MaxSummaries == 2

\* A summary stream: the script's finalContent is what it has written as
\* deltas so far; the events of a stream carry the meetingId it was started
\* with.
NewSummaryStream(meetingId, ok) ==
    [meetingId |-> meetingId, finalContent |-> <<>>,
     phase |-> IF ok THEN "streaming" ELSE "rejected"]

\* handleGenerateSummary, from an enabled Generate summary button, to the end
\* of its invoke: the catch of a rejected start_summary_stream only logs.
GenerateSummary ==
    /\ ~summarizer.isSummarizing
    /\ ~enhancer.isEnhancingSelection
    /\ HasActiveMeeting
    /\ trim(activeMeeting.transcript) # <<>> \/ trim(activeMeeting.notes) # <<>>
    /\ Len(summarizer.streams) < MaxSummaries
    /\ \E ok \in BOOLEAN : \E now \in Times :
         /\ summarizer' = [isSummarizing |-> TRUE,
                           summaryBufferRef |-> <<>>,
                           streams |-> Append(summarizer.streams,
                                              NewSummaryStream(activeMeeting.id, ok))]
         /\ meetings' = updateActiveMeeting(meetings,
                [m \in Listed |-> [m EXCEPT !.summary = <<>>, !.updatedAt = now]])
    /\ UNCHANGED <<recVars, hostVars, session, returns, pureVars, shortcut, enhancer,
                   activeMeetingId, activeMeetingRef, created, loaded, commitLog>>

\* The script writes a delta and the summary-delta listener gets it.
SummaryDelta(k) ==
    /\ k \in 1..Len(summarizer.streams)
    /\ summarizer.streams[k].phase = "streaming"
    /\ Len(summarizer.streams[k].finalContent) < MaxDeltas
    /\ \E content \in DeltaContents : \E now \in Times :
         LET next == summarizer.summaryBufferRef \o content IN
         IF summarizer.streams[k].meetingId = activeMeetingRef
         THEN /\ summarizer' = [summarizer EXCEPT
                                  !.streams[k].finalContent = @ \o content,
                                  !.summaryBufferRef = next]
              /\ meetings' = updateActiveMeeting(meetings,
                     [m \in Listed |-> [m EXCEPT !.summary = next, !.updatedAt = now]])
         ELSE /\ summarizer' = [summarizer EXCEPT
                                  !.streams[k].finalContent = @ \o content]
              /\ meetings' = meetings
    /\ UNCHANGED <<recVars, hostVars, session, returns, pureVars, shortcut, enhancer,
                   activeMeetingId, activeMeetingRef, created, loaded, commitLog>>

\* The script writes its final event, with finalContent, on session.idle.
SummaryFinal(k) ==
    /\ k \in 1..Len(summarizer.streams)
    /\ summarizer.streams[k].phase = "streaming"
    /\ \E now \in Times :
         LET finalText == summarizer.streams[k].finalContent IN
         IF summarizer.streams[k].meetingId = activeMeetingRef
         THEN /\ summarizer' = [summarizer EXCEPT !.streams[k].phase = "final",
                                                  !.summaryBufferRef = finalText]
              /\ meetings' = updateActiveMeeting(meetings,
                     [m \in Listed |-> [m EXCEPT !.summary = finalText, !.updatedAt = now]])
         ELSE /\ summarizer' = [summarizer EXCEPT !.streams[k].phase = "final"]
              /\ meetings' = meetings
    /\ UNCHANGED <<recVars, hostVars, session, returns, pureVars, shortcut, enhancer,
                   activeMeetingId, activeMeetingRef, created, loaded, commitLog>>

\* summary-done for stream k, with the whole summary or with none.
SummaryDone(k) ==
    /\ k \in 1..Len(summarizer.streams)
    /\ summarizer.streams[k].phase = "final"
    /\ \E withSummary \in BOOLEAN : \E now \in Times :
         LET content == summarizer.streams[k].finalContent IN
         IF summarizer.streams[k].meetingId = activeMeetingRef
         THEN /\ summarizer' = [summarizer EXCEPT !.streams[k].phase = "done",
                                                  !.isSummarizing = FALSE]
              /\ meetings' = IF withSummary /\ content # <<>>
                             THEN updateActiveMeeting(meetings,
                                      [m \in Listed |-> [m EXCEPT !.summary = content,
                                                           !.updatedAt = now]])
                             ELSE meetings
         ELSE /\ summarizer' = [summarizer EXCEPT !.streams[k].phase = "done"]
              /\ meetings' = meetings
    /\ UNCHANGED <<recVars, hostVars, session, returns, pureVars, shortcut, enhancer,
                   activeMeetingId, activeMeetingRef, created, loaded, commitLog>>

\* summary-error: a stream fails, or the backend reports the rejected start
\* with an event as well (whether it does is not visible from the listeners,
\* so both runs are kept).
SummaryError(k) ==
    /\ k \in 1..Len(summarizer.streams)
    /\ summarizer.streams[k].phase \in {"streaming", "rejected"}
    /\ summarizer' = [summarizer EXCEPT !.streams[k].phase = "failed",
                                        !.isSummarizing = FALSE]
    /\ UNCHANGED <<recVars, hostVars, session, returns, pureVars, shortcut, enhancer,
                   meetingVars>>

SummaryNext ==
    \/ LoadMeetings
    \/ \E i \in 1..(MaxLoaded + MaxCreated) : SelectMeeting(i)
    \/ GenerateSummary
    \/ \E k \in 1..MaxSummaries : SummaryDelta(k)
    \/ \E k \in 1..MaxSummaries : SummaryFinal(k)
    \/ \E k \in 1..MaxSummaries : SummaryDone(k)
    \/ \E k \in 1..MaxSummaries : SummaryError(k)

SummarySpec == StreamInit /\ [][SummaryNext]_vars

\* The streams that can still send summary-done or summary-error.
PendingSummaries ==
    {k \in 1..Len(summarizer.streams) :
        summarizer.streams[k].phase \in {"streaming", "final", "rejected"}}

\* C38: the summarizing flag is set only while a generation can still send
\* the event that clears it.
C38_SummarizingCleared == summarizer.isSummarizing => PendingSummaries # {}

\* The latest summary stream started for the meeting with this id (0: none).
LatestSummary(id) ==
    LET ks == {k \in 1..Len(summarizer.streams) : summarizer.streams[k].meetingId = id}
    IN IF ks = {} THEN 0 ELSE CHOOSE k \in ks : \A j \in ks : j <= k

\* C39: the summary of a meeting for which a summary was generated is what
\* the latest stream of that meeting has sent: its deltas so far in order,
\* which is also the content of its final event.
C39_SummaryIsOwnStream ==
    \A i \in 1..Len(meetings) :
        LatestSummary(meetings[i].id) # 0
        => meetings[i].summary =
               summarizer.streams[LatestSummary(meetings[i].id)].finalContent

====
